---------------------------- MODULE Spec2Model ----------------------------
(***************************************************************************)
(* A model of weread2notion-pro's three source files:                      *)
(*   weread_api_v2.py      WeReadApiV2  ("v2"): _retry, make_api_request,   *)
(*                         the endpoint operations, get_chapter_info and    *)
(*                         the heuristic relay strategy try_get_cloud_cookie*)
(*   weread_api.py         WeReadApi    ("v1"): the @retry-wrapped endpoint *)
(*                         operations                                       *)
(*   cookiecloud_client.py CookieCloudClient: _find_domain_key, get_cookies,*)
(*                         get_cookie_string                                *)
(*                                                                         *)
(* The specifications share the variables:                                 *)
(*   SpecApi      one endpoint operation at a time, request by request      *)
(*   SpecChapter  get_chapter_info's normalisation of a chapter list        *)
(*   SpecCookie   credential acquisition from a relay payload               *)
(*   SpecRelay    credential acquisition when cookie_data is a string       *)
(*   SpecBookId   calculate_book_str_id                                     *)
(*   SpecChapterCall  calls of v2 get_chapter_info, run to their end        *)
(*   SpecReview   get_review_list's reshaping of the reviews                *)
(*   SpecGetCookie  get_cookie's choice between its sources                 *)
(***************************************************************************)
EXTENDS Integers, Sequences, FiniteSets, TLC

VARIABLES
    \* ---- SpecApi: the request engine
    client,         \* "v1" (WeReadApi) or "v2" (WeReadApiV2)
    op,             \* the endpoint operation being called
    pc,             \* where the call stands
    attempt,        \* the retry loop's attempt number (1..MaxAttempts)
    nbAttempt,      \* attempt number of the notebook-list fetch nested in v2 get_chapter_info
    outcome,        \* what the call gave its caller
    warmed,         \* this attempt has issued the warm-up request
    warmOk,         \* ... and the warm-up request succeeded
    nbOk,           \* this attempt fetched the notebook list successfully
    nWarm,          \* warm-up requests issued by this call
    nNb,            \* nested notebook-list requests issued by this call
    nReq,           \* endpoint requests issued by this call
    nSleep,         \* retry sleeps of this call
    attLog,         \* per attempt: how it ended (res) and how its endpoint request ended (cls)
    expirySeen,     \* a response of this call carried -2012 or -2010
    reqAfterExpiry, \* requests issued by this call after such a response
    lastResp,       \* the last request of this call and the response it got
    \* ---- SpecChapter: chapter normalisation
    chList,         \* the chapter list the server holds (the "updated" array)
    chCode,         \* the error code the server puts in an error body
    chRes,          \* v2 get_chapter_info's result per envelope shape
    chLast,         \* the last get_chapter_info call: client, body shape, result
    \* ---- SpecCookie: credential acquisition
    payload,        \* the relay's cookie data: a sequence of [key, cookies], in dict order
    ckLast,         \* the last credential acquisition: who, the relay's answer, the result
    \* ---- SpecRelay: a relay whose cookie_data is a string
    relay,          \* the cookie_data string the relay answers with, and how it was made
    rlLast,         \* the last acquisition from it: the client's settings, the result
    \* ---- SpecBookId: the reader-URL key of a book
    bookId,         \* the bookId given to calculate_book_str_id
    strId,          \* what calculate_book_str_id gave for it
    \* ---- the v2 engine object (WeReadApiV2.__init__)
    cookie,         \* self.cookie
    sessionHeaders, \* self.session.headers: the default headers, by name
    initialized,    \* self.initialized
    wait,           \* the sleep in progress, in ms (0: not sleeping)
    \* ---- SpecReview: get_review_list's reshaping of the server's reviews
    reviews,        \* the "reviews" array of the server's answer
    rvLast,         \* the last get_review_list call: client, result
    \* ---- SpecGetCookie: get_cookie's choice between its sources
    gcLast          \* the last get_cookie call: client, environment, result

apiVars == <<client, op, pc, attempt, nbAttempt, outcome, warmed, warmOk, nbOk,
             nWarm, nNb, nReq, nSleep, attLog, expirySeen, reqAfterExpiry, lastResp,
             cookie, sessionHeaders, initialized, wait>>
chVars == <<chList, chCode, chRes, chLast>>
ckVars == <<payload, ckLast>>
rlVars == <<relay, rlLast>>
idVars == <<bookId, strId>>
rvVars == <<reviews, rvLast>>
gcVars == <<gcLast>>
vars == <<apiVars, chVars, ckVars, rlVars, idVars, rvVars, gcVars>>

(***************************************************************************)
(* Program constants.                                                      *)
(***************************************************************************)
MaxAttempts == 3
Sentinel == 1000000
SentinelUpdateTime == 1683825006
ExpiryCodes == {-2012, -2010}

(***************************************************************************)
(* Text.  str(int) is computed digit by digit.                             *)
(***************************************************************************)
Digit(d) ==
    CASE d = 0 -> "0" [] d = 1 -> "1" [] d = 2 -> "2" [] d = 3 -> "3" [] d = 4 -> "4"
      [] d = 5 -> "5" [] d = 6 -> "6" [] d = 7 -> "7" [] d = 8 -> "8" [] d = 9 -> "9"

RECURSIVE NatToStr(_)
NatToStr(n) == IF n < 10 THEN Digit(n) ELSE NatToStr(n \div 10) \o Digit(n % 10)

IntToStr(n) == IF n < 0 THEN "-" \o NatToStr(-n) ELSE NatToStr(n)


(***************************************************************************)
(* JSON values as the code inspects them: a list or a dict (tagged, since  *)
(* the code asks isinstance(data, list)); a chapter is a dict.             *)
(***************************************************************************)
JList(q) == [t |-> "list", l |-> q]
JDict(f) == [t |-> "dict", d |-> f]

\* isinstance(x, list)
IsList(x) == x.t = "list"

\* Python's `k in x` for a string k: a key of a dict; an element of a list
\* (the lists here hold dicts only, so never an element).
In(k, x) == IF x.t = "dict" THEN k \in DOMAIN x.d ELSE FALSE

\* x.get(k, default)
DictGet(x, k, default) == IF k \in DOMAIN x.d THEN x.d[k] ELSE default

\* A ChapterRecord as the server sends it.
Chapter(uid, title) ==
    JDict([chapterUid |-> uid, chapterIdx |-> uid, updateTime |-> 0,
           readAhead |-> 0, title |-> title, level |-> 1])

\* The synthetic reviews chapter both clients append (its title is the
\* two-character Chinese word for "review", written here in pinyin).
ReviewsChapter ==
    JDict([chapterUid |-> Sentinel, chapterIdx |-> Sentinel,
           updateTime |-> SentinelUpdateTime, readAhead |-> 0,
           title |-> "dianping", level |-> 1])

\* A mapping key: Python's dict keys are typed, so the int 1000000 and the
\* text "1000000" are different keys.
KeyStr(s) == [kind |-> "str", i |-> 0, s |-> s]
KeyInt(n) == [kind |-> "int", i |-> n, s |-> ""]

EmptyMap == [k \in {} |-> ReviewsChapter]

\* m[k] = v on a dict: a later item replaces an earlier one under the same key.
MapPut(m, k, v) == [x \in (DOMAIN m) \cup {k} |-> IF x = k THEN v ELSE m[x]]

\* v2: for curr in update: result[str(curr["chapterUid"])] = curr
RECURSIVE BuildMapV2(_, _)
BuildMapV2(update, n) ==
    IF n = 0 THEN EmptyMap
    ELSE MapPut(BuildMapV2(update, n - 1),
                KeyStr(IntToStr(update[n].d.chapterUid)), update[n])

\* v1: {item["chapterUid"]: item for item in update}
RECURSIVE BuildMapV1(_, _)
BuildMapV1(update, n) ==
    IF n = 0 THEN EmptyMap
    ELSE MapPut(BuildMapV1(update, n - 1), KeyInt(update[n].d.chapterUid), update[n])

ChReturn(m) == [kind |-> "return", map |-> m, exc |-> "none"]
ChRaise(e) == [kind |-> "raise", map |-> EmptyMap, exc |-> e]
ChNone == [kind |-> "none", map |-> EmptyMap, exc |-> "none"]

\* v2 step 6: probe the four response formats in order.
ProbeShapes(data) ==
    IF /\ In("data", data)
       /\ IsList(data.d["data"])
       /\ Len(data.d["data"].l) = 1
       /\ In("updated", data.d["data"].l[1])
    THEN [found |-> TRUE, update |-> data.d["data"].l[1].d["updated"].l]
    ELSE IF In("updated", data) /\ IsList(data.d["updated"])
    THEN [found |-> TRUE, update |-> data.d["updated"].l]
    ELSE IF IsList(data) /\ Len(data.l) > 0 /\ In("updated", data.l[1])
    THEN [found |-> TRUE, update |-> data.l[1].d["updated"].l]
    ELSE IF IsList(data) /\ Len(data.l) > 0 /\ In("chapterUid", data.l[1])
    THEN [found |-> TRUE, update |-> data.l]
    ELSE [found |-> FALSE, update |-> <<>>]

\* errcode = data.get("errCode") or data.get("errcode", 0)
ErrcodeOf(data) ==
    LET a == DictGet(data, "errCode", 0)
    IN  IF a # 0 THEN a ELSE DictGet(data, "errcode", 0)

\* v2 get_chapter_info._request from the parsed response on: one attempt.
ChapterRequestV2(data) ==
    LET p == ProbeShapes(data)
        update == Append(p.update, ReviewsChapter)
    IN  IF p.found THEN ChReturn(BuildMapV2(update, Len(update)))
        ELSE IF IsList(data) THEN ChRaise("attribute")    \* a list has no .get
        ELSE IF ErrcodeOf(data) \in ExpiryCodes THEN ChReturn(EmptyMap)
        ELSE IF ErrcodeOf(data) # 0 THEN ChRaise("api")
        ELSE ChRaise("structural")

\* v1 get_chapter_info from the response on: one attempt.
ChapterRequestV1(ok, data) ==
    IF /\ ok
       /\ In("data", data)
       /\ Len(data.d["data"].l) = 1
       /\ In("updated", data.d["data"].l[1])
    THEN LET update == Append(data.d["data"].l[1].d["updated"].l, ReviewsChapter)
         IN  ChReturn(BuildMapV1(update, Len(update)))
    ELSE ChRaise("generic")

\* The response bodies: the four envelopes of a chapter list, and error bodies.
EnvelopeShapes == {"nested", "flat", "envlist", "bare"}
ErrorShapes == {"errcode", "errCode", "nocode"}

Envelope(shape, L) ==
    CASE shape = "nested" ->
            JDict([data |-> JList(<<JDict([bookId |-> "b", updated |-> JList(L)])>>)])
      [] shape = "flat" -> JDict([updated |-> JList(L)])
      [] shape = "envlist" -> JList(<<JDict([bookId |-> "b", updated |-> JList(L)])>>)
      [] shape = "bare" -> JList(L)

ErrorBody(shape, code) ==
    CASE shape = "errcode" -> JDict([errcode |-> code, errmsg |-> "m"])
      [] shape = "errCode" -> JDict([errCode |-> code, errMsg |-> "m"])
      [] shape = "nocode" -> JDict([succ |-> 1])

Body(shape, L, code) ==
    IF shape \in EnvelopeShapes THEN Envelope(shape, L) ELSE ErrorBody(shape, code)

(***************************************************************************)
(* The request engine.                                                     *)
(***************************************************************************)
V1Ops == {"get_bookshelf", "get_notebooklist", "get_bookinfo", "get_bookmark_list",
          "get_read_info", "get_review_list", "get_api_data", "get_chapter_info"}
V2Ops == {"get_bookshelf", "get_entire_shelf", "get_notebooklist", "get_bookinfo",
          "get_bookmark_list", "get_read_info", "get_review_list", "get_best_reviews",
          "get_chapter_info"}
OpsOf(c) == IF c = "v1" THEN V1Ops ELSE V2Ops

\* The operations under the retry policy: every v2 operation ends in
\* self._retry(_request); v1's carry @retry(stop_max_attempt_number=3, ...),
\* except get_bookshelf and get_api_data.
Wrapped(c, o) == c = "v2" \/ o \notin {"get_bookshelf", "get_api_data"}

\* The attempt budget of an operation.
AttemptBudget(c, o) == IF Wrapped(c, o) THEN MaxAttempts ELSE 1

\* What the server (or the network) answers to one request.  net: the request
\* raised (no response); ok: the HTTP status is below 400; json: the body
\* parses as JSON (a dict); hasErr/errcode: the body's errcode field; data:
\* the body holds the endpoint's payload field ("books", "updated", "reviews").
ErrCodes == {0, 1} \cup ExpiryCodes
NetError ==
    [net |-> TRUE, ok |-> FALSE, json |-> FALSE, hasErr |-> FALSE, errcode |-> 0,
     data |-> FALSE]
Responses ==
    {NetError}
    \cup {[net |-> FALSE, ok |-> o, json |-> FALSE, hasErr |-> FALSE, errcode |-> 0,
           data |-> FALSE] : o \in BOOLEAN}
    \cup {[net |-> FALSE, ok |-> o, json |-> TRUE, hasErr |-> h, errcode |-> 0,
           data |-> d] : o \in BOOLEAN, h \in BOOLEAN, d \in BOOLEAN}
    \cup {[net |-> FALSE, ok |-> o, json |-> TRUE, hasErr |-> TRUE, errcode |-> c,
           data |-> FALSE] : o \in BOOLEAN, c \in ErrCodes \ {0}}

\* The chapter-info POST's answers: as above, with the parsed body.
OneChapter == <<Chapter(1, "a")>>
\* n: the number of chapters in the body's list.
ChapterBodies ==
    [shape : EnvelopeShapes, code : {0}, n : {1}]
    \cup [shape : {"bare"}, code : {0}, n : {0}]
    \cup [shape : {"errcode"}, code : {0, 1, -2012}, n : {0}]
    \cup [shape : {"errCode"}, code : {-2010}, n : {0}]
    \cup [shape : {"nocode"}, code : {0}, n : {0}]
ChapterBodyOf(b) == Body(b.shape, IF b.n = 0 THEN <<>> ELSE OneChapter, b.code)
ChapterResponses ==
    {[net |-> TRUE, ok |-> FALSE, json |-> FALSE,
      body |-> [shape |-> "nocode", code |-> 0, n |-> 0]]}
    \cup {[net |-> FALSE, ok |-> FALSE, json |-> FALSE,
           body |-> [shape |-> "nocode", code |-> 0, n |-> 0]]}
    \cup {[net |-> FALSE, ok |-> o, json |-> TRUE, body |-> b] :
            o \in BOOLEAN, b \in ChapterBodies}

\* How a request ended, as the spec classifies responses: "expired" when the
\* body carries -2012 or -2010, "ok" on an OK status with a JSON body whose
\* errcode is absent or zero, "transient" otherwise.
RequestClass(r) ==
    IF ~r.net /\ r.json /\ r.hasErr /\ r.errcode \in ExpiryCodes THEN "expired"
    ELSE IF ~r.net /\ r.ok /\ r.json /\ (~r.hasErr \/ r.errcode = 0) THEN "ok"
    ELSE "transient"

ChapterRequestClass(r) ==
    IF ~r.net /\ r.json /\ r.body.shape \in {"errcode", "errCode"}
       /\ r.body.code \in ExpiryCodes THEN "expired"
    ELSE IF ~r.net /\ r.ok /\ r.json
            /\ (r.body.shape \in {"errcode", "errCode"} => r.body.code = 0) THEN "ok"
    ELSE "transient"

NoExc == [kind |-> "none", att |-> 0]
NoOutcome == [kind |-> "none", att |-> 0, val |-> "none", exc |-> NoExc]
Return(att, val) == [kind |-> "return", att |-> att, val |-> val, exc |-> NoExc]
Raise(att, kind) ==
    [kind |-> "raise", att |-> att, val |-> "none", exc |-> [kind |-> kind, att |-> att]]

HandleErrcodeNever(errcode) == FALSE

\* v2 handle_errcode: raises on the two expiry codes, returns otherwise.
HandleErrcodeRaises(errcode) == errcode \in {-2012, -2010}

\* v1 handle_errcode: prints on the two expiry codes, never raises.
HandleErrcodeRaisesV1(errcode) == FALSE

\* v2 make_api_request: one request, classified.
MakeApiRequest(r, att) ==
    IF r.net THEN Raise(att, "network")
    ELSE IF ~r.json THEN Raise(att, "json")          \* response.json() raises
    ELSE IF r.hasErr /\ r.errcode # 0
         THEN IF HandleErrcodeRaises(r.errcode) THEN Raise(att, "expired")
              ELSE Raise(att, "api")
    ELSE Return(att, "json")

\* v1: what an operation does with the body of an OK response.
\* get_notebooklist sorts data.get("books") and get_review_list maps over
\* r.json().get("reviews"): both raise when the field is missing (None).
OkBodyV1(o, r, att) ==
    IF ~r.json THEN Raise(att, "json")
    ELSE IF o = "get_notebooklist" /\ ~r.data THEN Raise(att, "attribute")
    ELSE IF o = "get_review_list" /\ ~r.data THEN Raise(att, "type")
    ELSE IF o = "get_bookmark_list" /\ ~r.data THEN Return(att, "None")
    ELSE Return(att, "json")

\* v1: the endpoint request of an operation other than get_chapter_info, after
\* the warm-up.  get_bookinfo prints and falls off the end on a non-OK status.
EndpointV1(o, r, att) ==
    IF r.net THEN Raise(att, "network")
    ELSE IF r.ok THEN OkBodyV1(o, r, att)
    ELSE IF ~r.json THEN Raise(att, "json")   \* r.json().get("errcode", 0) raises
    ELSE IF HandleErrcodeRaisesV1(IF r.hasErr THEN r.errcode ELSE 0)
         THEN Raise(att, "expired")
    ELSE IF o = "get_bookinfo" THEN Return(att, "None")
    ELSE Raise(att, "generic")

\* The chapter-info POST of one attempt, from the response on.
ChapterOutcome(res, att) ==
    IF res.kind = "raise" THEN Raise(att, res.exc)
    ELSE Return(att, IF res.map = EmptyMap THEN "empty" ELSE "mapping")

ChapterPostV2(r, att) ==
    IF r.net THEN Raise(att, "network")
    ELSE IF ~r.json THEN Raise(att, "json")
    ELSE ChapterOutcome(ChapterRequestV2(ChapterBodyOf(r.body)), att)

ChapterPostV1(r, att) ==
    IF r.net THEN Raise(att, "network")
    ELSE IF ~r.ok THEN Raise(att, "generic")
    ELSE IF ~r.json THEN Raise(att, "json")
    ELSE ChapterOutcome(
            ChapterRequestV1(r.ok, ChapterBodyOf(r.body)), att)

\* The retry loops (v2 _retry; v1 the retrying decorator with
\* stop_max_attempt_number=3): an attempt that returns ends the call with its
\* value; one that raises ends it with that exception when it was the last
\* attempt of the budget, and otherwise leads to the sleep before the next.
RetryDecisionShortBudget(res, att, budget) ==
    IF res.kind = "return" THEN "done"
    ELSE IF att >= budget - 1 THEN "done"
    ELSE "sleep"

RetryDecisionAlwaysSleeps(res, att, budget) ==
    IF res.kind = "return" THEN "done" ELSE "sleep"

RetryDecision(res, att, budget) ==
    IF res.kind = "return" THEN "done"
    ELSE IF att = budget THEN "done"
    ELSE "sleep"

\* A whole call when every attempt ends alike (the server answers each
\* attempt with the same response): the retry loop run to its end.
RECURSIVE RetryAlike(_, _, _)
RetryAlike(res, att, budget) ==
    IF RetryDecision(res, att, budget) = "done" THEN res
    ELSE RetryAlike(res, att + 1, budget)

\* The attempt ended with res; cls is how its endpoint request ended
\* ("skipped" when the attempt raised before issuing it).
AttemptEnds(res, cls) ==
    /\ attLog' = Append(attLog, [res |-> res, cls |-> cls])
    /\ IF RetryDecision(res, attempt, AttemptBudget(client, op)) = "done"
       THEN outcome' = res /\ pc' = "done"
       ELSE outcome' = outcome /\ pc' = "sleep"

\* _retry(func, max_attempts=3, wait_ms=5000):
\*     random_wait = wait_ms + int(time.time() * 1000) % 3000
WaitMs == 5000
JitterSpan == 3000
RandomWaitUnbounded(wait_ms, now) == wait_ms + now
RandomWait(wait_ms, now) == wait_ms + (now % JitterSpan)

\* v1: @retry(stop_max_attempt_number=3, wait_fixed=5000)
WaitFixed == 5000

\* int(time.time() * 1000) at the moments the model looks at the clock.
Clock == {2999, 3000, 4500}

\* The credential the engine of the initial state was constructed with.
SetupCredential == <<"k", "=", "v">>

\* _setup_session: self.session.headers.update({'Cookie': self.cookie, ...})
SetupSession(c) ==
    [h \in {"Cookie", "timeout"} |->
        IF h = "Cookie" THEN c ELSE <<"6", "0", "0", "0", "0">>]

\* _ensure_initialized: if not self.initialized: self.initialized = True
EnsureInitialized(init) == IF ~init THEN TRUE ELSE init

EnsureCookieHeaderBlank(headers, c) ==
    [h \in (DOMAIN headers) \cup {"Cookie"} |-> IF h = "Cookie" THEN <<>> ELSE headers[h]]

\* make_api_request: if 'Cookie' not in self.session.headers:
\*                       self.session.headers['Cookie'] = self.cookie
EnsureCookieHeader(headers, c) ==
    IF "Cookie" \in DOMAIN headers THEN headers
    ELSE [h \in (DOMAIN headers) \cup {"Cookie"} |->
              IF h = "Cookie" THEN c ELSE headers[h]]

\* The first step of an attempt: v1 operations and v2 get_chapter_info start
\* with the warm-up; the other v2 operations go straight to make_api_request.
FirstStep(c, o) ==
    IF c = "v1" \/ o = "get_chapter_info" THEN "warmup" ELSE "endpoint"

\* A request and its response, as the later steps of the call see them: which
\* request (req), and of the response the status, the body's errcode field
\* (either spelling) and, for the chapter-info POST, the body's shape.
NoResponse ==
    [req |-> "none", net |-> FALSE, ok |-> FALSE, json |-> FALSE, hasErr |-> FALSE,
     errcode |-> 0, shape |-> "none", n |-> 0]
Seen(req, r) ==
    [req |-> req, net |-> r.net, ok |-> r.ok, json |-> r.json,
     hasErr |-> r.hasErr, errcode |-> r.errcode, shape |-> "none", n |-> 0]
SeenChapter(r) ==
    [req |-> "chapter", net |-> r.net, ok |-> r.ok, json |-> r.json,
     hasErr |-> (r.json /\ r.body.shape \in {"errcode", "errCode"}),
     errcode |-> r.body.code, shape |-> IF r.json THEN r.body.shape ELSE "none",
     n |-> r.body.n]

NoteRequest(cls, seen) ==
    /\ reqAfterExpiry' = IF expirySeen THEN reqAfterExpiry + 1 ELSE reqAfterExpiry
    /\ expirySeen' = (expirySeen \/ cls = "expired")
    /\ lastResp' = seen

Call(c, o) ==
    /\ pc = "idle"
    /\ client' = c /\ op' = o
    /\ attempt' = 1 /\ nbAttempt' = 0
    /\ pc' = FirstStep(c, o)
    /\ outcome' = NoOutcome
    /\ warmed' = FALSE /\ warmOk' = FALSE /\ nbOk' = FALSE
    /\ nWarm' = 0 /\ nNb' = 0 /\ nReq' = 0 /\ nSleep' = 0
    /\ attLog' = <<>> /\ expirySeen' = FALSE /\ reqAfterExpiry' = 0
    /\ lastResp' = NoResponse
    /\ UNCHANGED <<chVars, ckVars, rlVars, idVars,
                   cookie, sessionHeaders, initialized, wait, rvVars, gcVars>>

\* v1: self.session.get(WEREAD_URL); an exception ends the attempt, any
\* response (whatever its status) lets it go on.
WarmupV1(net) ==
    /\ pc = "warmup" /\ client = "v1"
    /\ nWarm' = nWarm + 1
    /\ warmed' = TRUE /\ warmOk' = ~net
    /\ IF net
       THEN AttemptEnds(Raise(attempt, "network"), "skipped")
       ELSE pc' = "endpoint" /\ UNCHANGED <<outcome, attLog>>
    /\ UNCHANGED <<client, op, attempt, nbAttempt, nbOk, nNb, nReq, nSleep,
                   expirySeen, reqAfterExpiry,
                   lastResp, chVars, ckVars, rlVars, idVars,
                   cookie, sessionHeaders, initialized, wait, rvVars, gcVars>>

\* v2 visit_homepage: an exception is caught and False returned; the caller
\* ignores the return value and goes on to the notebook list.
VisitHomepage(net) ==
    /\ pc = "warmup" /\ client = "v2"
    /\ nWarm' = nWarm + 1
    /\ warmed' = TRUE /\ warmOk' = ~net
    /\ pc' = "nb" /\ nbAttempt' = 1
    /\ UNCHANGED <<client, op, attempt, outcome, nbOk, nNb, nReq, nSleep, attLog,
                   expirySeen, reqAfterExpiry,
                   lastResp, chVars, ckVars, rlVars, idVars,
                   cookie, sessionHeaders, initialized, wait, rvVars, gcVars>>

\* v2: one request of the get_notebooklist nested in a get_chapter_info
\* attempt (its own _retry loop).
NotebookRequest(r) ==
    /\ pc = "nb"
    /\ nNb' = nNb + 1
    /\ initialized' = EnsureInitialized(initialized)
    /\ sessionHeaders' = EnsureCookieHeader(sessionHeaders, cookie)
    /\ NoteRequest(RequestClass(r), Seen("notebook", r))
    /\ LET res == MakeApiRequest(r, attempt)
       IN  IF res.kind = "return"
           THEN nbOk' = TRUE /\ pc' = "delay" /\ UNCHANGED <<outcome, attLog>>
           ELSE /\ nbOk' = FALSE
                /\ IF RetryDecision(res, nbAttempt, MaxAttempts) = "done"
                   THEN AttemptEnds(res, "skipped")
                   ELSE pc' = "nbsleep" /\ UNCHANGED <<outcome, attLog>>
    /\ UNCHANGED <<client, op, attempt, nbAttempt, warmed, warmOk, nWarm, nReq, nSleep,
                   chVars, ckVars, rlVars, idVars,
                   cookie, wait, rvVars, gcVars>>

\* The nested _retry sleeps between two notebook-list attempts ...
NotebookSleep(now) ==
    /\ pc = "nbsleep"
    /\ wait' = RandomWait(WaitMs, now)
    /\ pc' = "nbsleeping"
    /\ UNCHANGED <<client, op, attempt, nbAttempt, outcome, warmed, warmOk, nbOk, nWarm,
                   nNb, nReq, nSleep, attLog, expirySeen, reqAfterExpiry,
                   lastResp, chVars, ckVars, rlVars, idVars,
                   cookie, sessionHeaders, initialized, rvVars, gcVars>>

\* ... and its loop goes on to the next one.
NotebookWake ==
    /\ pc = "nbsleeping"
    /\ wait' = 0
    /\ IF nbAttempt < MaxAttempts
       THEN nbAttempt' = nbAttempt + 1 /\ pc' = "nb" /\ UNCHANGED <<outcome, attLog>>
       ELSE nbAttempt' = nbAttempt /\ AttemptEnds(Raise(attempt, "exhausted"), "skipped")
    /\ UNCHANGED <<client, op, attempt, warmed, warmOk, nbOk, nWarm, nNb, nReq,
                   nSleep, expirySeen, reqAfterExpiry,
                   lastResp, chVars, ckVars, rlVars, idVars,
                   cookie, sessionHeaders, initialized, rvVars, gcVars>>

\* v2 get_chapter_info step 3: the random delay before the POST.
Delay ==
    /\ pc = "delay"
    /\ pc' = "post"
    /\ UNCHANGED <<client, op, attempt, nbAttempt, outcome, warmed, warmOk, nbOk, nWarm,
                   nNb, nReq, nSleep, attLog, expirySeen, reqAfterExpiry,
                   lastResp, chVars, ckVars, rlVars, idVars,
                   cookie, sessionHeaders, initialized, wait, rvVars, gcVars>>

\* v2 get_chapter_info step 5 on: the POST and the normalisation.
ChapterPost(r) ==
    /\ pc = "post"
    /\ nReq' = nReq + 1
    /\ NoteRequest(ChapterRequestClass(r), SeenChapter(r))
    /\ AttemptEnds(ChapterPostV2(r, attempt), ChapterRequestClass(r))
    /\ UNCHANGED <<client, op, attempt, nbAttempt, warmed, warmOk, nbOk, nWarm, nNb,
                   nSleep, chVars, ckVars, rlVars, idVars,
                   cookie, sessionHeaders, initialized, wait, rvVars, gcVars>>

\* v2: an operation other than get_chapter_info: _request is make_api_request
\* and a reshaping of its result.
EndpointRequestV2(r) ==
    /\ pc = "endpoint" /\ client = "v2"
    /\ nReq' = nReq + 1
    /\ initialized' = EnsureInitialized(initialized)
    /\ sessionHeaders' = EnsureCookieHeader(sessionHeaders, cookie)
    /\ NoteRequest(RequestClass(r), Seen("endpoint", r))
    /\ AttemptEnds(MakeApiRequest(r, attempt), RequestClass(r))
    /\ UNCHANGED <<client, op, attempt, nbAttempt, warmed, warmOk, nbOk, nWarm, nNb,
                   nSleep, chVars, ckVars, rlVars, idVars,
                   cookie, wait, rvVars, gcVars>>

\* v1: the endpoint request of an operation other than get_chapter_info.
EndpointRequestV1(r) ==
    /\ pc = "endpoint" /\ client = "v1" /\ op # "get_chapter_info"
    /\ nReq' = nReq + 1
    /\ NoteRequest(RequestClass(r), Seen("endpoint", r))
    /\ AttemptEnds(EndpointV1(op, r, attempt), RequestClass(r))
    /\ UNCHANGED <<client, op, attempt, nbAttempt, warmed, warmOk, nbOk, nWarm, nNb,
                   nSleep, chVars, ckVars, rlVars, idVars,
                   cookie, sessionHeaders, initialized, wait, rvVars, gcVars>>

\* v1 get_chapter_info's POST.
ChapterRequestStepV1(r) ==
    /\ pc = "endpoint" /\ client = "v1" /\ op = "get_chapter_info"
    /\ nReq' = nReq + 1
    /\ NoteRequest(ChapterRequestClass(r), SeenChapter(r))
    /\ AttemptEnds(ChapterPostV1(r, attempt), ChapterRequestClass(r))
    /\ UNCHANGED <<client, op, attempt, nbAttempt, warmed, warmOk, nbOk, nWarm, nNb,
                   nSleep, chVars, ckVars, rlVars, idVars,
                   cookie, sessionHeaders, initialized, wait, rvVars, gcVars>>

\* The sleep between two attempts: v2 _retry sleeps wait_ms plus a jitter
\* taken from the clock (now: int(time.time() * 1000)); v1's decorator
\* sleeps wait_fixed.
Sleep(now) ==
    /\ pc = "sleep"
    /\ nSleep' = nSleep + 1
    /\ wait' = IF client = "v2" THEN RandomWait(WaitMs, now) ELSE WaitFixed
    /\ pc' = "sleeping"
    /\ UNCHANGED <<client, op, attempt, nbAttempt, outcome, warmed, warmOk, nbOk, nWarm,
                   nNb, nReq, attLog, expirySeen, reqAfterExpiry,
                   lastResp, chVars, ckVars, rlVars, idVars,
                   cookie, sessionHeaders, initialized, rvVars, gcVars>>

\* The sleep is over: the loop's next attempt starts; a loop that has run
\* out of attempts raises _retry's trailing exception.
Wake ==
    /\ pc = "sleeping"
    /\ wait' = 0
    /\ nbAttempt' = 0
    /\ warmed' = FALSE /\ warmOk' = FALSE /\ nbOk' = FALSE
    /\ IF attempt < AttemptBudget(client, op)
       THEN attempt' = attempt + 1 /\ pc' = FirstStep(client, op) /\ outcome' = outcome
       ELSE attempt' = attempt /\ pc' = "done" /\ outcome' = Raise(attempt, "exhausted")
    /\ UNCHANGED <<client, op, nWarm, nNb, nReq, nSleep, attLog, expirySeen,
                   reqAfterExpiry,
                   lastResp, chVars, ckVars, rlVars, idVars,
                   cookie, sessionHeaders, initialized, rvVars, gcVars>>

\* The caller has the result; the engine is free for the next call.
Finish ==
    /\ pc = "done"
    /\ pc' = "idle"
    /\ UNCHANGED <<client, op, attempt, nbAttempt, outcome, warmed, warmOk, nbOk, nWarm,
                   nNb, nReq, nSleep, attLog, expirySeen, reqAfterExpiry,
                   lastResp, chVars, ckVars, rlVars, idVars,
                   cookie, sessionHeaders, initialized, wait, rvVars, gcVars>>

InitApiVars ==
    /\ client = "v2" /\ op = "get_notebooklist" /\ pc = "idle"
    /\ attempt = 0 /\ nbAttempt = 0 /\ outcome = NoOutcome
    /\ warmed = FALSE /\ warmOk = FALSE /\ nbOk = FALSE
    /\ nWarm = 0 /\ nNb = 0 /\ nReq = 0 /\ nSleep = 0
    /\ attLog = <<>> /\ expirySeen = FALSE /\ reqAfterExpiry = 0
    /\ lastResp = NoResponse
    /\ cookie = SetupCredential
    /\ sessionHeaders = SetupSession(SetupCredential)
    /\ initialized = FALSE
    /\ wait = 0

InitChVars ==
    /\ chList = <<>> /\ chCode = 0
    /\ chRes = [s \in EnvelopeShapes |-> ChNone]
    /\ chLast = [client |-> "none", shape |-> "none", res |-> ChNone]

NoRelay == [form |-> "none", pw |-> <<>>, plain |-> <<>>, text |-> <<>>]
NoDecode ==
    [who |-> "none", password |-> <<>>, crypto |-> FALSE,
     dec |-> [ok |-> FALSE, val |-> <<>>], accepted |-> FALSE, via |-> "none",
     kind |-> "idle", str |-> <<>>]
InitRlVars == relay = NoRelay /\ rlLast = NoDecode

NoStrId ==
    [kind |-> "idle", code |-> "", parts |-> <<>>, pre |-> <<>>, str |-> <<>>]
InitIdVars == bookId = <<>> /\ strId = NoStrId

NoReviews == [client |-> "none", kind |-> "idle", list |-> <<>>]
InitRvVars == reviews = <<>> /\ rvLast = NoReviews

(***************************************************************************)
(* Credential acquisition.  Text (domain keys, cookie names and values,    *)
(* the credential string) is a sequence of characters.                     *)
(***************************************************************************)
WereadQqCom == <<"w", "e", "r", "e", "a", "d", ".", "q", "q", ".", "c", "o", "m">>
DotWereadQqCom == <<".">> \o WereadQqCom
WwwWereadQqCom == <<"w", "w", "w", ".">> \o WereadQqCom
XWereadQqCom == <<"x">> \o WereadQqCom
Weread == <<"w", "e", "r", "e", "a", "d">>
CookieDataField == <<"c", "o", "o", "k", "i", "e", "_", "d", "a", "t", "a">>

\* str.endswith
EndsWith(s, suffix) ==
    /\ Len(suffix) <= Len(s)
    /\ SubSeq(s, Len(s) - Len(suffix) + 1, Len(s)) = suffix

\* sep.join(parts)
RECURSIVE Join(_, _)
Join(parts, sep) ==
    IF Len(parts) = 0 THEN <<>>
    ELSE IF Len(parts) = 1 THEN parts[1]
    ELSE parts[1] \o sep \o Join(Tail(parts), sep)


\* A cookie_data dict: the keys, and the value under a key.
KeysOf(cd) == {cd[i].key : i \in 1..Len(cd)}
ValueOf(cd, key) == cd[CHOOSE i \in 1..Len(cd) : cd[i].key = key].cookies

NoKey == [found |-> FALSE, key |-> <<>>]
FoundKey(k) == [found |-> TRUE, key |-> k]

\* The third rule of _find_domain_key: the first key, in dict order, that is
\* the domain, the dotted domain, or ends with the domain.
RECURSIVE ScanKeys(_, _, _)
ScanKeys(domain, cd, i) ==
    IF i > Len(cd) THEN NoKey
    ELSE IF \/ cd[i].key = domain
            \/ cd[i].key = <<".">> \o domain
            \/ EndsWith(cd[i].key, domain)
         THEN FoundKey(cd[i].key)
    ELSE ScanKeys(domain, cd, i + 1)

FindDomainKeyDottedFirst(domain, cd) ==
    IF (<<".">> \o domain) \in KeysOf(cd) THEN FoundKey(<<".">> \o domain)
    ELSE IF domain \in KeysOf(cd) THEN FoundKey(domain)
    ELSE ScanKeys(domain, cd, 1)

FindDomainKeyScanOnly(domain, cd) == ScanKeys(domain, cd, 1)

\* CookieCloudClient._find_domain_key
FindDomainKey(domain, cd) ==
    IF domain \in KeysOf(cd) THEN FoundKey(domain)
    ELSE IF (<<".">> \o domain) \in KeysOf(cd) THEN FoundKey(<<".">> \o domain)
    ELSE ScanKeys(domain, cd, 1)

\* `if matched_key:` -- None and the empty string are falsy.
Truthy(k) == k.found /\ k.key # <<>>

\* f"{cookie['name']}={cookie['value']}"
RenderCookie(c) == c.name \o <<"=">> \o c.value

\* [f"{cookie['name']}={cookie['value']}" for cookie in cookies]
RenderAll(cookies) == [i \in 1..Len(cookies) |-> RenderCookie(cookies[i])]

\* The relay's answer to POST {url}/get/{uuid}: the request raised ("net"), a
\* status other than 200 ("status"), a body that is not JSON ("nojson"), a
\* JSON dict holding the cookie data itself, with no cookie_data field
\* ("bare"), or {"cookie_data": <the cookie data>} ("wrapped").
RelayModes == {"net", "status", "nojson", "bare", "wrapped"}

NoCredential ==
    [kind |-> "idle", str |-> <<>>, strategy |-> 0, via |-> <<>>,
     searched |-> <<>>, key1 |-> NoKey, key2 |-> NoKey]
CkRaise(searched, key1, key2) ==
    [NoCredential EXCEPT !.kind = "raise", !.searched = searched,
                         !.key1 = key1, !.key2 = key2]
CkNone == [NoCredential EXCEPT !.kind = "None"]

\* get_cookies up to the domain lookup: the dict that is searched.  A missing
\* or empty cookie_data makes the whole response the cookie data.
CookieDataV1(mode, cd) ==
    IF mode = "wrapped" /\ cd = <<>>
    THEN <<[key |-> CookieDataField, cookies |-> <<>>]>>
    ELSE cd

\* CookieCloudClient.get_cookie_string(domain): get_cookies(domain), then the
\* lookup again in the one-key dict it returned, then the rendering.
GetCookieString(domain, mode, cd) ==
    IF mode \in {"net", "status", "nojson"} THEN CkRaise(<<>>, NoKey, NoKey)
    ELSE LET data == CookieDataV1(mode, cd)
             key1 == FindDomainKey(domain, data)
         IN  IF ~Truthy(key1) THEN CkRaise(data, key1, NoKey)
             ELSE LET one == <<[key |-> key1.key, cookies |-> ValueOf(data, key1.key)]>>
                      key2 == FindDomainKey(domain, one)
                  IN  IF ~Truthy(key2) THEN CkRaise(data, key1, key2)
                      ELSE [kind |-> "return",
                            str |-> Join(RenderAll(ValueOf(one, key2.key)), <<";", " ">>),
                            strategy |-> 0, via |-> key2.key,
                            searched |-> data, key1 |-> key1, key2 |-> key2]

\* cookie.get("name") and cookie.get("value")
HasNameAndValue(c) == c.name # <<>> /\ c.value # <<>>

\* c.get("domain") in [".weread.qq.com", "weread.qq.com"]
HasWereadDomain(c) == c.domain \in {DotWereadQqCom, WereadQqCom}

V2Return(strategy, via, items) ==
    [NoCredential EXCEPT !.kind = "return", !.strategy = strategy, !.via = via,
                         !.str = Join(items, <<";", " ">>)]

ExtractCookiesKeepAll(cd, domain) ==
    IF ValueOf(cd, domain) = <<>> THEN CkNone
    ELSE V2Return(1, domain, RenderAll(ValueOf(cd, domain)))

\* WeReadApiV2._extract_cookies_from_domain, for a key the payload has
ExtractCookiesFromDomain(cd, domain) ==
    IF Len(ValueOf(cd, domain)) = 0 THEN CkNone
    ELSE LET items == RenderAll(SelectSeq(ValueOf(cd, domain), HasNameAndValue))
         IN  IF Len(items) = 0 THEN CkNone ELSE V2Return(1, domain, items)

\* try_get_cloud_cookie step 3: the first key, in dict order, with a cookie
\* whose domain attribute is weread's.
RECURSIVE ScanAllDomains(_, _)
ScanAllDomains(cd, i) ==
    IF i > Len(cd) THEN CkNone
    ELSE LET found == RenderAll(SelectSeq(cd[i].cookies, HasWereadDomain))
         IN  IF found # <<>> THEN V2Return(3, cd[i].key, found)
             ELSE ScanAllDomains(cd, i + 1)

\* WeReadApiV2.try_get_cloud_cookie(url, uuid, password)
TryGetCloudCookie(mode, cd) ==
    IF mode # "wrapped" THEN CkNone
    ELSE IF WereadQqCom \in KeysOf(cd) THEN ExtractCookiesFromDomain(cd, WereadQqCom)
    ELSE LET valid == IF Weread \in KeysOf(cd)
                      THEN RenderAll(SelectSeq(ValueOf(cd, Weread), HasWereadDomain))
                      ELSE <<>>
         IN  IF valid # <<>> THEN V2Return(2, Weread, valid)
             ELSE ScanAllDomains(cd, 1)

(***************************************************************************)
(* SpecCookie: the relay's cookie data grows key by key and cookie by      *)
(* cookie; either client asks it for the weread.qq.com credential.         *)
(***************************************************************************)
MaxPayloadSize == 4

PayloadKeys == {WereadQqCom, DotWereadQqCom, WwwWereadQqCom, XWereadQqCom, Weread}
CookieEntries ==
    { [name |-> <<"a">>, value |-> <<"1">>, domain |-> DotWereadQqCom],
      [name |-> <<"b">>, value |-> <<>>, domain |-> WereadQqCom],
      [name |-> <<"c">>, value |-> <<"%", "3", "D", "=">>, domain |-> <<>>] }

RECURSIVE CookieCount(_)
CookieCount(cd) == IF cd = <<>> THEN 0 ELSE Len(cd[1].cookies) + CookieCount(Tail(cd))
PayloadSize(cd) == Len(cd) + CookieCount(cd)

InsertAt(q, i, x) == SubSeq(q, 1, i - 1) \o <<x>> \o SubSeq(q, i, Len(q))

NoAcquisition == [who |-> "none", mode |-> "none", res |-> NoCredential]

\* The relay's snapshot gains a domain key, at any place of the dict's order.
RelayAddKey(key, i) ==
    /\ PayloadSize(payload) < MaxPayloadSize
    /\ key \notin KeysOf(payload)
    /\ i \in 1..(Len(payload) + 1)
    /\ payload' = InsertAt(payload, i, [key |-> key, cookies |-> <<>>])
    /\ ckLast' = NoAcquisition
    /\ UNCHANGED <<apiVars, chVars, rlVars, idVars, rvVars, gcVars>>

\* The relay's snapshot gains a cookie under one of its keys.
RelayAddCookie(i, c) ==
    /\ PayloadSize(payload) < MaxPayloadSize
    /\ i \in 1..Len(payload)
    /\ payload' = [payload EXCEPT ![i].cookies = Append(@, c)]
    /\ ckLast' = NoAcquisition
    /\ UNCHANGED <<apiVars, chVars, rlVars, idVars, rvVars, gcVars>>

\* CookieCloudClient(...).get_cookie_string("weread.qq.com"), as called by
\* WeReadApi.get_cookie_from_cloud and get_weread_cookie_from_cloud.
CallGetCookieString(mode) ==
    /\ ckLast' = [who |-> "v1", mode |-> mode,
                  res |-> GetCookieString(WereadQqCom, mode, payload)]
    /\ UNCHANGED <<payload, apiVars, chVars, rlVars, idVars, rvVars, gcVars>>

\* WeReadApiV2.try_get_cloud_cookie(url, uuid, password)
CallTryGetCloudCookie(mode) ==
    /\ ckLast' = [who |-> "v2", mode |-> mode, res |-> TryGetCloudCookie(mode, payload)]
    /\ UNCHANGED <<payload, apiVars, chVars, rlVars, idVars, rvVars, gcVars>>

InitCkVars == payload = <<>> /\ ckLast = NoAcquisition

\* os.getenv(name): None when the variable is not set, its text otherwise.
Unset == [set |-> FALSE, val |-> <<>>]
EnvText(t) == [set |-> TRUE, val |-> t]
NoEnv == [WEREAD_COOKIE |-> Unset, CC_ID |-> Unset, CC_PASSWORD |-> Unset]
NoGetCookie ==
    [who |-> "none", env |-> NoEnv, mode |-> "none", contacted |-> FALSE,
     cloud |-> NoCredential, kind |-> "idle", str |-> <<>>]
InitGcVars == gcLast = NoGetCookie

InitCookie ==
    /\ InitApiVars /\ InitChVars /\ InitCkVars /\ InitRlVars /\ InitIdVars
    /\ InitRvVars /\ InitGcVars

NextCookie ==
    \/ \E key \in PayloadKeys, i \in 1..MaxPayloadSize : RelayAddKey(key, i)
    \/ \E i \in 1..MaxPayloadSize, c \in CookieEntries : RelayAddCookie(i, c)
    \/ \E mode \in RelayModes : CallGetCookieString(mode)
    \/ \E mode \in RelayModes : CallTryGetCloudCookie(mode)

SpecCookie == InitCookie /\ [][NextCookie]_vars

Init ==
    /\ InitApiVars /\ InitChVars /\ InitCkVars /\ InitRlVars /\ InitIdVars
    /\ InitRvVars /\ InitGcVars

NextApi ==
    \/ \E c \in {"v1", "v2"} : \E o \in OpsOf(c) : Call(c, o)
    \/ \E net \in BOOLEAN : WarmupV1(net)
    \/ \E net \in BOOLEAN : VisitHomepage(net)
    \/ \E r \in Responses : NotebookRequest(r)
    \/ \E now \in Clock : NotebookSleep(now)
    \/ NotebookWake
    \/ Delay
    \/ \E r \in ChapterResponses : ChapterPost(r)
    \/ \E r \in Responses : EndpointRequestV2(r)
    \/ \E r \in Responses : EndpointRequestV1(r)
    \/ \E r \in ChapterResponses : ChapterRequestStepV1(r)
    \/ \E now \in Clock : Sleep(now)
    \/ Wake
    \/ Finish

SpecApi == Init /\ [][NextApi]_vars

(***************************************************************************)
(* Claims about the request engine (SpecApi).                              *)
(***************************************************************************)
Raised(k) == attLog[k].res.kind = "raise"

\* C1: retry budget.  Under the retry policy, a call whose first two attempts
\* failed (raised) and whose third succeeded returns the third attempt's
\* result; a call whose attempts all failed has made exactly MaxAttempts
\* attempts and raises the third attempt's exception itself.
C1_RetryBudget ==
    (pc = "done" /\ Wrapped(client, op)) =>
        /\ Len(attLog) \in 1..MaxAttempts
        /\ \A k \in 1..(Len(attLog) - 1) : Raised(k)
        /\ ~Raised(Len(attLog)) =>
                (outcome.kind = "return" /\ outcome = attLog[Len(attLog)].res
                    /\ outcome.att = Len(attLog))
        /\ Raised(Len(attLog)) =>
                /\ Len(attLog) = MaxAttempts
                /\ outcome.kind = "raise"
                /\ outcome = attLog[MaxAttempts].res
                /\ outcome.exc.att = MaxAttempts

\* C1's cases happen: two failed attempts and a successful third ...
C1_WitnessThirdSucceeds ==
    /\ pc = "done" /\ Wrapped(client, op) /\ Len(attLog) = MaxAttempts
    /\ Raised(1) /\ Raised(2) /\ ~Raised(3)
    /\ outcome.kind = "return" /\ outcome.att = MaxAttempts

\* ... and three failed attempts.
C1_WitnessAllFail ==
    /\ pc = "done" /\ Wrapped(client, op) /\ Len(attLog) = MaxAttempts
    /\ Raised(1) /\ Raised(2) /\ Raised(3)
    /\ outcome.kind = "raise" /\ nSleep = MaxAttempts - 1

\* C2: a response carrying -2012 or -2010 ends the operation: no request
\* follows it, and the operation raises the credential-expired error, not
\* the generic one.
C2_ExpiryShortCircuits ==
    /\ reqAfterExpiry = 0
    /\ (pc = "done" /\ expirySeen) =>
            (outcome.kind = "raise" /\ outcome.exc.kind = "expired")

(***************************************************************************)
(* Chapter normalisation (SpecChapter): the server holds a chapter list    *)
(* and answers get_chapter_info with it in one of the four envelopes, or   *)
(* with an error body; warm-up and notebook list succeed, and every        *)
(* attempt of a call gets the same answer.                                 *)
(***************************************************************************)
MaxChapters == 2
ChapterUids == {1, 2, Sentinel}
ChapterTitles == {"a", "b"}
ChapterCodes == {0, 1} \cup ExpiryCodes

UidsOf(L) == {L[i].d.chapterUid : i \in 1..Len(L)}

\* The server's book gains a chapter (chapterUids are distinct in a book).
ServerAddChapter(uid, title) ==
    /\ Len(chList) < MaxChapters
    /\ uid \notin UidsOf(chList)
    /\ chList' = Append(chList, Chapter(uid, title))
    /\ chRes' = [s \in EnvelopeShapes |-> ChNone]
    /\ chLast' = [client |-> "none", shape |-> "none", res |-> ChNone]
    /\ UNCHANGED <<chCode, apiVars, ckVars, rlVars, idVars, rvVars, gcVars>>

\* WeReadApiV2.get_chapter_info(book_id), answered with the given body shape.
GetChapterInfoV2(shape) ==
    /\ LET res == RetryAlike(ChapterRequestV2(Body(shape, chList, chCode)), 1, MaxAttempts)
       IN  /\ chLast' = [client |-> "v2", shape |-> shape, res |-> res]
           /\ chRes' = IF shape \in EnvelopeShapes
                       THEN [chRes EXCEPT ![shape] = res] ELSE chRes
    /\ UNCHANGED <<chList, chCode, apiVars, ckVars, rlVars, idVars, rvVars, gcVars>>

\* WeReadApi.get_chapter_info(bookId), answered with the given status and body.
GetChapterInfoV1(ok, shape) ==
    /\ LET res == RetryAlike(ChapterRequestV1(ok, Body(shape, chList, chCode)),
                             1, MaxAttempts)
       IN  chLast' = [client |-> "v1", shape |-> shape, res |-> res]
    /\ UNCHANGED <<chList, chCode, chRes, apiVars, ckVars, rlVars, idVars, rvVars, gcVars>>

InitChapter ==
    /\ InitApiVars /\ InitCkVars /\ InitRlVars /\ InitIdVars
    /\ InitRvVars /\ InitGcVars
    /\ chList = <<>> /\ chCode \in ChapterCodes
    /\ chRes = [s \in EnvelopeShapes |-> ChNone]
    /\ chLast = [client |-> "none", shape |-> "none", res |-> ChNone]

NextChapter ==
    \/ \E uid \in ChapterUids, title \in ChapterTitles : ServerAddChapter(uid, title)
    \/ \E shape \in EnvelopeShapes \cup ErrorShapes : GetChapterInfoV2(shape)
    \/ \E ok \in BOOLEAN, shape \in EnvelopeShapes \cup ErrorShapes :
            GetChapterInfoV1(ok, shape)

SpecChapter == InitChapter /\ [][NextChapter]_vars

SentinelKey == KeyStr("1000000")

\* The chapter chList[i] is in the mapping m under its identifier as text.
HoldsChapter(m, i) ==
    LET k == KeyStr(IntToStr(chList[i].d.chapterUid))
    IN  k \in DOMAIN m /\ m[k] = chList[i]

\* C3: the four envelopes carrying the same chapter list all make v2
\* get_chapter_info return the same mapping, which holds every chapter of the
\* list and the synthetic reviews chapter under "1000000".
C3_EnvelopesAgree ==
    (\A s \in EnvelopeShapes : chRes[s].kind # "none") =>
        \A s \in EnvelopeShapes :
            /\ chRes[s].kind = "return"
            /\ chRes[s].map = chRes["nested"].map
            /\ SentinelKey \in DOMAIN chRes[s].map
            /\ chRes[s].map[SentinelKey] = ReviewsChapter
            /\ \A i \in 1..Len(chList) : HoldsChapter(chRes[s].map, i)

\* C4: every mapping get_chapter_info returns, in either client, holds the
\* synthetic reviews chapter, and each of its keys is the text of the
\* chapterUid of the chapter stored under it ("1000000" for the sentinel).
C4_ReturnedMappingKeyedByText ==
    chLast.res.kind = "return" =>
        /\ SentinelKey \in DOMAIN chLast.res.map
        /\ chLast.res.map[SentinelKey] = ReviewsChapter
        /\ \A k \in DOMAIN chLast.res.map :
                k = KeyStr(IntToStr(chLast.res.map[k].d.chapterUid))

\* C5: the synthetic reviews chapter replaces or drops no chapter the server
\* sent: every chapter of the list is in the mapping returned for an
\* envelope that carried it.
C5_NoServerChapterReplaced ==
    (chLast.res.kind = "return" /\ chLast.shape \in EnvelopeShapes) =>
        \A i \in 1..Len(chList) :
            \E k \in DOMAIN chLast.res.map : chLast.res.map[k] = chList[i]

(***************************************************************************)
(* Credential acquisition: the claims, over SpecCookie.                    *)
(***************************************************************************)
Returned == ckLast.res.kind = "return"

\* The cookies the payload holds under the key the credential was built from.
MatchedSequence == ValueOf(payload, ckLast.res.via)

\* C6: no credential-acquisition operation returns a credential built from
\* an empty CookieEntry sequence: when the matched key's sequence is empty
\* the operation raises or returns None, never an empty string.
C6_EmptyMatchIsNotFound ==
    Returned => (MatchedSequence # <<>> /\ ckLast.res.str # <<>>)

SomeKeyHoldsWereadDomain ==
    \E i \in 1..Len(payload) : \E j \in 1..Len(payload[i].cookies) :
        payload[i].cookies[j].domain \in {WereadQqCom, DotWereadQqCom}

\* C7: try_get_cloud_cookie, given a 200 response with a structured
\* cookie_data, returns a credential whenever some payload key holds an entry
\* whose domain attribute is "weread.qq.com" or ".weread.qq.com"; it returns
\* None only if all three strategies fail.
C7_NoneOnlyIfAllStrategiesFail ==
    (ckLast.who = "v2" /\ ckLast.mode = "wrapped" /\ SomeKeyHoldsWereadDomain)
        => Returned

\* get_cookies reached the domain lookup, over these keys.
LookedUp == ckLast.who = "v1" /\ ckLast.res.searched # <<>>
SearchedKeys == KeysOf(ckLast.res.searched)

\* C8: _find_domain_key returns the exact key whenever the payload has it
\* (also next to the dotted key), the dotted key only when the exact key is
\* absent, and a suffix-matching key only when both are absent.
C8_ResolveDomainPriority ==
    LookedUp =>
        LET key == ckLast.res.key1
        IN  /\ WereadQqCom \in SearchedKeys => key = FoundKey(WereadQqCom)
            /\ (WereadQqCom \notin SearchedKeys /\ DotWereadQqCom \in SearchedKeys)
                   => key = FoundKey(DotWereadQqCom)
            /\ key = FoundKey(DotWereadQqCom) => WereadQqCom \notin SearchedKeys
            /\ (key.found /\ key.key \notin {WereadQqCom, DotWereadQqCom})
                   => /\ WereadQqCom \notin SearchedKeys
                      /\ DotWereadQqCom \notin SearchedKeys
                      /\ EndsWith(key.key, WereadQqCom)

C8_WitnessBothKeys ==
    /\ LookedUp
    /\ Len(payload) >= 2
    /\ payload[1].key = DotWereadQqCom
    /\ WereadQqCom \in KeysOf(payload)
    /\ ckLast.res.key1 = FoundKey(WereadQqCom)

C8_WitnessSuffixKey ==
    /\ LookedUp
    /\ ckLast.res.key1 = FoundKey(WwwWereadQqCom)

\* C9: when the payload has the target domain as an exact key, a key added
\* at any place of the dict's order leaves the result of _find_domain_key
\* unchanged; and the lookup get_cookie_string repeats in the one-key dict
\* get_cookies returned finds the key get_cookies found.
C9_OrderIndependentAndIdempotent ==
    /\ [](Truthy(ckLast.res.key1) => ckLast.res.key2 = ckLast.res.key1)
    /\ [][(WereadQqCom \in KeysOf(payload) /\ Len(payload') > Len(payload))
             => FindDomainKey(WereadQqCom, payload') = FindDomainKey(WereadQqCom, payload)]_vars

C9_WitnessKeysAddedAround ==
    /\ Len(payload) >= 3
    /\ payload[2].key = WereadQqCom
    /\ payload[1].key = WwwWereadQqCom
    /\ ckLast.who = "v1"
    /\ ckLast.res.key1 = FoundKey(WereadQqCom)
    /\ ckLast.res.key2 = FoundKey(WereadQqCom)

\* The text of a credential, read back: the parts between "; ", each split
\* at its first "=".
RECURSIVE SplitOn(_, _, _)
SplitOn(s, sep, acc) ==
    IF s = <<>> THEN <<acc>>
    ELSE IF Len(s) >= Len(sep) /\ SubSeq(s, 1, Len(sep)) = sep
         THEN <<acc>> \o SplitOn(SubSeq(s, Len(sep) + 1, Len(s)), sep, <<>>)
    ELSE SplitOn(Tail(s), sep, Append(acc, Head(s)))

ReadPair(part) ==
    IF \E i \in 1..Len(part) : part[i] = "="
    THEN LET i == CHOOSE i \in 1..Len(part) :
                      part[i] = "=" /\ \A j \in 1..(i - 1) : part[j] # "="
         IN  [eq |-> TRUE, name |-> SubSeq(part, 1, i - 1),
              value |-> SubSeq(part, i + 1, Len(part))]
    ELSE [eq |-> FALSE, name |-> part, value |-> <<>>]

ReadCredential(s) ==
    IF s = <<>> THEN <<>>
    ELSE LET parts == SplitOn(s, <<";", " ">>, <<>>)
         IN  [i \in 1..Len(parts) |-> ReadPair(parts[i])]

PairsOf(cookies) ==
    [i \in 1..Len(cookies) |->
        [eq |-> TRUE, name |-> cookies[i].name, value |-> cookies[i].value]]

DomainMatched(cookies) ==
    SelectSeq(cookies, LAMBDA c : c.domain \in {WereadQqCom, DotWereadQqCom})

\* C10 (as stated): the credential string holds exactly one name=value pair
\* per entry of the matched CookieEntry sequence (for the strategies that
\* filter by the domain attribute, per entry with a matching domain), in
\* encounter order, joined by "; ", the values unmodified.
C10_OnePairPerEntry ==
    Returned =>
        ReadCredential(ckLast.res.str) =
            PairsOf(IF ckLast.res.strategy \in {2, 3}
                    THEN DomainMatched(MatchedSequence)
                    ELSE MatchedSequence)

\* C10 (amended): as above, except that _extract_cookies_from_domain renders
\* only the entries whose name and value are both non-empty.
C10_OnePairPerKeptEntry ==
    Returned =>
        ReadCredential(ckLast.res.str) =
            PairsOf(CASE ckLast.res.strategy \in {2, 3} -> DomainMatched(MatchedSequence)
                      [] ckLast.res.strategy = 1 ->
                            SelectSeq(MatchedSequence,
                                      LAMBDA c : c.name # <<>> /\ c.value # <<>>)
                      [] OTHER -> MatchedSequence)

C10_WitnessDroppedEntry ==
    /\ Returned
    /\ ckLast.res.strategy = 1
    /\ Len(MatchedSequence) = 3
    /\ MatchedSequence[2].value = <<>>
    /\ Len(ReadCredential(ckLast.res.str)) = 2

C10_WitnessGetCookieString ==
    /\ Returned
    /\ ckLast.who = "v1"
    /\ Len(MatchedSequence) >= 2
    /\ MatchedSequence[1] # MatchedSequence[2]

(***************************************************************************)
(* The request engine: warm-up, classification, swallowed failures.        *)
(***************************************************************************)
\* C11: every endpoint request (the notebook list nested in get_chapter_info
\* included) is issued in an attempt that has already issued the warm-up
\* request to the root page.
C11_WarmupBeforeEveryRequest ==
    [][(nReq' > nReq \/ nNb' > nNb) => warmed]_vars

\* The attempt that has just ended.
AttemptOver == pc \in {"sleep", "done"} /\ Len(attLog) > 0
LastAttempt == attLog[Len(attLog)].res

\* C12: make_api_request, given a response with a JSON body, returns it if
\* and only if the errcode field is absent or zero; -2012 and -2010 raise the
\* expiry error, every other non-zero code the generic API error, which the
\* retry loop retries while attempts remain.
C12_ErrcodeClassification ==
    (AttemptOver /\ client = "v2" /\ lastResp.req = "endpoint" /\ lastResp.json) =>
        /\ LastAttempt.kind = "return" <=> (~lastResp.hasErr \/ lastResp.errcode = 0)
        /\ (lastResp.hasErr /\ lastResp.errcode \in {-2012, -2010})
               => (LastAttempt.kind = "raise" /\ LastAttempt.exc.kind = "expired")
        /\ (lastResp.hasErr /\ lastResp.errcode \notin {0, -2012, -2010})
               => /\ LastAttempt.kind = "raise"
                  /\ LastAttempt.exc.kind = "api"
                  /\ Len(attLog) < MaxAttempts => pc = "sleep"

C12_WitnessExpiry ==
    /\ AttemptOver /\ client = "v2" /\ lastResp.req = "endpoint"
    /\ lastResp.hasErr /\ lastResp.errcode = -2010
    /\ LastAttempt.exc.kind = "expired"

C12_WitnessGenericRetried ==
    /\ client = "v2" /\ lastResp.req = "endpoint" /\ pc = "sleep"
    /\ lastResp.hasErr /\ lastResp.errcode = 1
    /\ LastAttempt.exc.kind = "api"

\* The final attempt's endpoint request got a response that reports a
\* failure: a status that is not OK, or a non-zero errcode.
FailingResponse ==
    /\ lastResp.req \in {"endpoint", "chapter"}
    /\ ~lastResp.net
    /\ ~lastResp.ok \/ (lastResp.hasErr /\ lastResp.errcode # 0)

\* C13: an operation whose final attempt received a failing response raises
\* to its caller; the one exception is v2 get_chapter_info's empty result on
\* an expiry code.
C13_NoFailureSwallowed ==
    (pc = "done" /\ FailingResponse) =>
        \/ outcome.kind = "raise"
        \/ /\ client = "v2" /\ op = "get_chapter_info"
           /\ lastResp.errcode \in ExpiryCodes
           /\ outcome.val = "empty"

\* The chapter-info response matched none of the four shapes.
MatchedNoShape ==
    /\ lastResp.req = "chapter" /\ lastResp.json
    /\ lastResp.shape \notin EnvelopeShapes \/ (lastResp.shape = "bare" /\ lastResp.n = 0)

\* C19: v2 get_chapter_info returns the empty mapping only when, in that
\* attempt, the notebook list was fetched and the chapter response matched
\* no shape and carried -2012 or -2010, and then without another attempt; a
\* response that matches no shape and has a zero or absent error code raises
\* the structural error.
C19_EmptyOnlyOnExpiry ==
    (AttemptOver /\ client = "v2" /\ op = "get_chapter_info") =>
        /\ (LastAttempt.kind = "return" /\ LastAttempt.val = "empty")
               => /\ nbOk
                  /\ MatchedNoShape
                  /\ lastResp.hasErr /\ lastResp.errcode \in {-2012, -2010}
                  /\ pc = "done" /\ outcome = LastAttempt
        /\ (MatchedNoShape /\ (~lastResp.hasErr \/ lastResp.errcode = 0))
               => (LastAttempt.kind = "raise" /\ LastAttempt.exc.kind = "structural")

\* C20: in every attempt of v2 get_chapter_info the notebook list is
\* requested after the warm-up, and the chapter-info POST is sent only when
\* the warm-up succeeded and the notebook list was fetched in that attempt.
C20_PostOnlyAfterWarmupAndNotebook ==
    [][(client = "v2" /\ op = "get_chapter_info")
           => /\ nNb' > nNb => warmed
              /\ nReq' > nReq => (warmOk /\ nbOk)]_vars

(***************************************************************************)
(* SpecBookId: WeReadApi.transform_id and calculate_book_str_id.  A bookId *)
(* is a sequence of characters.                                            *)
(***************************************************************************)
\* ord(c), for the characters of the model's bookIds and of the key
Ord(c) ==
    CASE c = "\n" -> 10
      [] c = "0" -> 48 [] c = "1" -> 49 [] c = "2" -> 50 [] c = "3" -> 51
      [] c = "4" -> 52 [] c = "5" -> 53 [] c = "6" -> 54 [] c = "7" -> 55
      [] c = "8" -> 56 [] c = "9" -> 57
      [] c = "a" -> 97 [] c = "b" -> 98 [] c = "c" -> 99 [] c = "d" -> 100
      [] c = "e" -> 101 [] c = "f" -> 102 [] c = "g" -> 103

\* \d
IsDigit(c) == c \in {"0", "1", "2", "3", "4", "5", "6", "7", "8", "9"}

\* re.match("^\\d*$", book_id): $ matches at the end of the string and also
\* just before a newline that ends the string.
MatchDigits(id) ==
    \/ \A i \in 1..Len(id) : IsDigit(id[i])
    \/ /\ Len(id) >= 1
       /\ id[Len(id)] = "\n"
       /\ \A i \in 1..(Len(id) - 1) : IsDigit(id[i])

\* int(s): surrounding whitespace is stripped; no digit left is a ValueError.
RECURSIVE DecimalValue(_)
DecimalValue(s) ==
    IF s = <<>> THEN 0
    ELSE 10 * DecimalValue(SubSeq(s, 1, Len(s) - 1)) + (Ord(s[Len(s)]) - 48)

IntOf(s) ==
    LET t == IF Len(s) > 0 /\ s[Len(s)] = "\n" THEN SubSeq(s, 1, Len(s) - 1) ELSE s
    IN  IF t = <<>> THEN [ok |-> FALSE, val |-> 0]
        ELSE [ok |-> TRUE, val |-> DecimalValue(t)]

\* format(n, "x")
HexDigit(d) ==
    CASE d < 10 -> Digit(d)
      [] d = 10 -> "a" [] d = 11 -> "b" [] d = 12 -> "c"
      [] d = 13 -> "d" [] d = 14 -> "e" [] d = 15 -> "f"

RECURSIVE Hex(_)
Hex(n) == IF n < 16 THEN <<HexDigit(n)>> ELSE Hex(n \div 16) \o <<HexDigit(n % 16)>>

ChunkLen == 9

\* book_id[i : min(i + 9, id_length)] for i in range(0, id_length, 9)
Chunks(id) ==
    [k \in 1..((Len(id) + ChunkLen - 1) \div ChunkLen) |->
        SubSeq(id, ChunkLen * (k - 1) + 1,
               IF ChunkLen * k < Len(id) THEN ChunkLen * k ELSE Len(id))]

RECURSIVE HexCodePoints(_)
HexCodePoints(id) ==
    IF id = <<>> THEN <<>> ELSE Hex(Ord(id[1])) \o HexCodePoints(Tail(id))

\* WeReadApi.transform_id
TransformId(id) ==
    IF MatchDigits(id)
    THEN LET chunks == Chunks(id)
         IN  IF \E k \in 1..Len(chunks) : ~IntOf(chunks[k]).ok
             THEN [ok |-> FALSE, code |-> "3", ary |-> <<>>]
             ELSE [ok |-> TRUE, code |-> "3",
                   ary |-> [k \in 1..Len(chunks) |-> Hex(IntOf(chunks[k]).val)]]
    ELSE [ok |-> TRUE, code |-> "4", ary |-> <<HexCodePoints(id)>>]

\* hashlib.md5(text).hexdigest(): 32 lowercase hex characters determined by
\* the text.  (A stand-in with the digest's format; the bits are not MD5's.)
RECURSIVE TextSum(_)
TextSum(text) ==
    IF text = <<>> THEN 7
    ELSE (31 * TextSum(SubSeq(text, 1, Len(text) - 1)) + Ord(text[Len(text)])) % 65521

Md5Hex(text) == [i \in 1..32 |-> HexDigit(((TextSum(text) + i) * (2 * i + 1)) % 16)]

\* hex_length_str: format(len(part), "x"), with a leading "0" when one digit
HexLength(part) ==
    LET h == Hex(Len(part)) IN IF Len(h) = 1 THEN <<"0">> \o h ELSE h

\* The loop of calculate_book_str_id: length, part, and "g" between parts.
RECURSIVE AppendParts(_, _)
AppendParts(ary, i) ==
    IF i > Len(ary) THEN <<>>
    ELSE HexLength(ary[i]) \o ary[i]
         \o (IF i < Len(ary) THEN <<"g">> ELSE <<>>) \o AppendParts(ary, i + 1)
\* WeReadApi.calculate_book_str_id
CalculateBookStrId(id) ==
    LET digest == Md5Hex(id)
        t == TransformId(id)
        header == SubSeq(digest, 1, 3) \o <<t.code, "2">> \o SubSeq(digest, 31, 32)
        pre == header \o AppendParts(t.ary, 1)
        padded == IF Len(pre) < 20 THEN pre \o SubSeq(digest, 1, 20 - Len(pre)) ELSE pre
    IN  IF ~t.ok THEN [NoStrId EXCEPT !.kind = "raise"]
        ELSE [kind |-> "return", code |-> t.code, parts |-> t.ary, pre |-> pre,
              str |-> padded \o SubSeq(Md5Hex(padded), 1, 3)]

MaxIdLen == 2

IdChars == {"0", "1", "a", "\n"}
RECURSIVE TextsUpTo(_, _)
TextsUpTo(chars, n) ==
    IF n = 0 THEN {<<>>}
    ELSE TextsUpTo(chars, n - 1)
         \cup {Append(t, c) : t \in TextsUpTo(chars, n - 1), c \in chars}

NineDigits ==
    {<<"1", "2", "3", "4", "5", "6", "7", "8", "9">>,
     <<"0", "0", "0", "0", "0", "0", "0", "0", "1">>}

BookIds ==
    TextsUpTo(IdChars, MaxIdLen)
    \cup {p \o t : p \in NineDigits, t \in TextsUpTo(IdChars, MaxIdLen)}

\* A caller asks for the key of another book.
TakeBook(id) ==
    /\ bookId' = id
    /\ strId' = NoStrId
    /\ UNCHANGED <<apiVars, chVars, ckVars, rlVars, rvVars, gcVars>>

\* WeReadApi.calculate_book_str_id(bookId), as get_url calls it
CallCalculateBookStrId ==
    /\ strId' = CalculateBookStrId(bookId)
    /\ UNCHANGED <<bookId, apiVars, chVars, ckVars, rlVars, rvVars, gcVars>>

NextBookId ==
    \/ \E id \in BookIds : TakeBook(id)
    \/ CallCalculateBookStrId

SpecBookId == Init /\ [][NextBookId]_vars

\* The bookId is made only of the decimal digits 0-9.
OnlyDigits == \A i \in 1..Len(bookId) : Ord(bookId[i]) \in 48..57

\* The value of a lowercase hex numeral.
RECURSIVE HexValue(_)
HexValue(h) ==
    IF h = <<>> THEN 0
    ELSE 16 * HexValue(SubSeq(h, 1, Len(h) - 1))
         + (CHOOSE d \in 0..15 : HexDigit(d) = h[Len(h)])

\* The hex code points of a text, character by character.
RECURSIVE CodePointsIn(_, _)
CodePointsIn(h, id) ==
    IF id = <<>> THEN h = <<>>
    ELSE \E n \in 1..Len(h) :
            /\ HexValue(SubSeq(h, 1, n)) = Ord(id[1])
            /\ h[1] # "0"
            /\ CodePointsIn(SubSeq(h, n + 1, Len(h)), Tail(id))

\* C16: a bookId made only of decimal digits gets type code "3" and
\* ceil(len/9) parts, the i-th the lowercase hex of the integer value of
\* characters [9i, 9i+9), separated by "g" in the key; every other bookId
\* gets type code "4" and one part, the hex code points of its characters.
C16_PartConstruction ==
    strId.kind # "idle" =>
        /\ strId.kind = "return"
        /\ IF OnlyDigits
           THEN /\ strId.code = "3" /\ strId.pre[4] = "3"
                /\ Len(strId.parts) = (Len(bookId) + 8) \div 9
                /\ \A k \in 1..Len(strId.parts) :
                      /\ HexValue(strId.parts[k])
                            = DecimalValue(SubSeq(bookId, 9 * k - 8,
                                   IF 9 * k < Len(bookId) THEN 9 * k ELSE Len(bookId)))
                      /\ (Len(strId.parts[k]) > 1 => strId.parts[k][1] # "0")
                /\ SubSeq(strId.pre, 8, Len(strId.pre))
                       = Join([k \in 1..Len(strId.parts) |->
                                  HexLength(strId.parts[k]) \o strId.parts[k]], <<"g">>)
           ELSE /\ strId.code = "4" /\ strId.pre[4] = "4"
                /\ Len(strId.parts) = 1
                /\ CodePointsIn(strId.parts[1], bookId)

\* C17: calculate_book_str_id returns, for every bookId, a string of at
\* least 23 characters: exactly 23 when header and parts are shorter than 20
\* (padded to 20, then 3 checksum characters), and header and parts unpadded
\* plus 3 characters otherwise.
C17_KeyLength ==
    strId.kind # "idle" =>
        /\ strId.kind = "return"
        /\ Len(strId.str) >= 23
        /\ Len(strId.pre) < 20 => Len(strId.str) = 23
        /\ Len(strId.pre) >= 20 => Len(strId.str) = Len(strId.pre) + 3
        /\ SubSeq(strId.str, 1, Len(strId.pre)) = strId.pre

(***************************************************************************)
(* SpecRelay: a relay whose cookie_data is a string.  The cipher is scaled *)
(* down: a byte is 0..3, a block BlockSize bytes; the block cipher is a    *)
(* keyed substitution-permutation, chained as CBC; base64 writes a byte as *)
(* two characters of a two-character alphabet.  Text is UTF-8 encoded one  *)
(* character to a byte; bytes 2 and 3 are no valid UTF-8.                  *)
(***************************************************************************)
BlockSize == 2
MaxPlainLen == 3

Bytes == 0..3
TextChars == <<"{", "}">>
Base64Chars == <<"A", "B">>

Failed == [ok |-> FALSE, val |-> <<>>]
Ok(v) == [ok |-> TRUE, val |-> v]

\* str.encode(): the index of the character in TextChars
Utf8Encode(text) ==
    [i \in 1..Len(text) |-> (CHOOSE k \in 1..Len(TextChars) : TextChars[k] = text[i]) - 1]

\* bytes.decode('utf-8'): UnicodeDecodeError on a byte that is no character
Utf8Decode(bytes) ==
    IF \E i \in 1..Len(bytes) : bytes[i] >= Len(TextChars) THEN Failed
    ELSE Ok([i \in 1..Len(bytes) |-> TextChars[bytes[i] + 1]])

\* base64.b64encode
RECURSIVE Base64Encode(_)
Base64Encode(bytes) ==
    IF bytes = <<>> THEN <<>>
    ELSE <<Base64Chars[(bytes[1] \div 2) + 1], Base64Chars[(bytes[1] % 2) + 1]>>
         \o Base64Encode(Tail(bytes))

Base64Value(c) == (CHOOSE k \in 1..Len(Base64Chars) : Base64Chars[k] = c) - 1

\* base64.b64decode(s): characters outside the alphabet are discarded; what
\* is left must make whole bytes ("Incorrect padding" otherwise).
Base64Decode(text) ==
    LET kept == SelectSeq(text, LAMBDA c : \E k \in 1..Len(Base64Chars) : Base64Chars[k] = c)
    IN  IF Len(kept) % 2 # 0 THEN Failed
        ELSE Ok([i \in 1..(Len(kept) \div 2) |->
                    2 * Base64Value(kept[2 * i - 1]) + Base64Value(kept[2 * i])])

\* Bitwise exclusive or of two bytes.
Xor(a, b) == 2 * (((a \div 2) + (b \div 2)) % 2) + ((a + b) % 2)

RECURSIVE ByteSum(_)
ByteSum(bytes) == IF bytes = <<>> THEN 0 ELSE bytes[1] + ByteSum(Tail(bytes))

\* _derive_key: key = sha256(password).digest(), iv = md5(password).digest().
\* (Stand-ins: a key and an iv of one block each, determined by the password.)
Sha256(bytes) == [i \in 1..BlockSize |-> (ByteSum(bytes) + i * Len(bytes) + 1) % 4]
Md5(bytes) == [i \in 1..BlockSize |-> (3 * ByteSum(bytes) + i) % 4]
DeriveKey(password) ==
    [key |-> Sha256(Utf8Encode(password)), iv |-> Md5(Utf8Encode(password))]

\* The block cipher: reverse the block, xor the key, substitute.
Sbox == <<2, 0, 3, 1>>
InvSbox(b) == (CHOOSE k \in 1..4 : Sbox[k] = b) - 1
EncryptBlock(key, blk) ==
    [i \in 1..BlockSize |-> Sbox[Xor(blk[BlockSize + 1 - i], key[i]) + 1]]
DecryptBlock(key, blk) ==
    [j \in 1..BlockSize |->
        Xor(InvSbox(blk[BlockSize + 1 - j]), key[BlockSize + 1 - j])]

XorBlock(a, b) == [i \in 1..BlockSize |-> Xor(a[i], b[i])]

\* AES.new(key, AES.MODE_CBC, iv).encrypt, as the relay applies it
RECURSIVE CbcEncrypt(_, _, _)
CbcEncrypt(key, prev, bytes) ==
    IF bytes = <<>> THEN <<>>
    ELSE LET c == EncryptBlock(key, XorBlock(SubSeq(bytes, 1, BlockSize), prev))
         IN  c \o CbcEncrypt(key, c, SubSeq(bytes, BlockSize + 1, Len(bytes)))

\* cipher.decrypt(encrypted_bytes), for whole blocks
RECURSIVE CbcDecrypt(_, _, _)
CbcDecrypt(key, prev, bytes) ==
    IF bytes = <<>> THEN <<>>
    ELSE LET c == SubSeq(bytes, 1, BlockSize)
         IN  XorBlock(DecryptBlock(key, c), prev)
             \o CbcDecrypt(key, c, SubSeq(bytes, BlockSize + 1, Len(bytes)))

\* Crypto.Util.Padding.pad / unpad (PKCS#7)
Pad(bytes) ==
    LET n == BlockSize - (Len(bytes) % BlockSize)
    IN  bytes \o [i \in 1..n |-> n]

UnpadNothing(bytes) == Ok(bytes)

Unpad(bytes) ==
    IF Len(bytes) = 0 \/ Len(bytes) % BlockSize # 0 THEN Failed
    ELSE LET n == bytes[Len(bytes)]
         IN  IF n < 1 \/ n > BlockSize \/ n > Len(bytes) THEN Failed
             ELSE IF \E i \in (Len(bytes) - n + 1)..Len(bytes) : bytes[i] # n THEN Failed
             ELSE Ok(SubSeq(bytes, 1, Len(bytes) - n))

\* The relay's encryption of a text under a passphrase.
RelayEncrypt(plain, password) ==
    LET k == DeriveKey(password)
    IN  Base64Encode(CbcEncrypt(k.key, k.iv, Pad(Utf8Encode(plain))))

\* CookieCloudClient._decrypt(encrypted_data, password); crypto: the Crypto
\* package can be imported.
Decrypt(encrypted_data, password, crypto) ==
    LET encrypted_bytes == Base64Decode(encrypted_data)
        k == DeriveKey(password)
    IN  IF ~encrypted_bytes.ok THEN Failed
        ELSE IF ~crypto THEN Utf8Decode(encrypted_bytes.val)
        ELSE IF Len(encrypted_bytes.val) % BlockSize # 0 THEN Failed
        ELSE LET decrypted == Unpad(CbcDecrypt(k.key, k.iv, encrypted_bytes.val))
             IN  IF ~decrypted.ok THEN Failed ELSE Utf8Decode(decrypted.val)

\* The model's JSON document of the relay's cookie data (the two characters
\* stand for the whole document), and the cookie data it describes.
JsonText == <<"{", "}">>
RelayPayload ==
    <<[key |-> WereadQqCom,
       cookies |-> <<[name |-> <<"a">>, value |-> <<"1">>, domain |-> DotWereadQqCom]>>]>>

\* json.loads(text)
JsonLoads(text) == IF text = JsonText THEN Ok(RelayPayload) ELSE Failed

\* get_cookies, `if isinstance(cookie_data, str):` -- the try block, and in
\* its except the json.loads of what cookie_data holds by then.
ParseCookieData(text, password, crypto) ==
    LET dec == IF password # <<>> THEN Decrypt(text, password, crypto) ELSE Failed
        b64 == Base64Decode(text)
        utf == IF b64.ok THEN Utf8Decode(b64.val) ELSE Failed
        first == IF password # <<>>
                 THEN (IF dec.ok THEN JsonLoads(dec.val) ELSE Failed)
                 ELSE (IF utf.ok THEN JsonLoads(utf.val) ELSE Failed)
        second == JsonLoads(IF dec.ok THEN dec.val ELSE text)
    IN  IF first.ok
        THEN [ok |-> TRUE, via |-> IF password # <<>> THEN "decrypt" ELSE "base64",
              dec |-> dec, cd |-> first.val]
        ELSE IF second.ok THEN [ok |-> TRUE, via |-> "json", dec |-> dec, cd |-> second.val]
        ELSE [ok |-> FALSE, via |-> "none", dec |-> dec, cd |-> <<>>]

\* get_cookie_string("weread.qq.com") when the relay's cookie_data is a
\* string.  An empty string is falsy: the whole response becomes the cookie
\* data and holds no weread key.
GetCookieStringFromText(text, password, crypto) ==
    LET p == ParseCookieData(text, password, crypto)
        res == GetCookieString(WereadQqCom, "bare", p.cd)
    IN  IF text = <<>> \/ ~p.ok
        THEN [NoDecode EXCEPT !.kind = "raise", !.dec = IF text = <<>> THEN Failed ELSE p.dec]
        ELSE [NoDecode EXCEPT !.kind = res.kind, !.str = res.str, !.dec = p.dec,
                              !.accepted = TRUE, !.via = p.via]

\* try_get_cloud_cookie when the relay's cookie_data is a string:
\* response_data["cookie_data"].keys() raises AttributeError, which the
\* enclosing except turns into None.
TryGetCloudCookieFromText(text) == [NoDecode EXCEPT !.kind = "None"]

Plaintexts == TextsUpTo({TextChars[k] : k \in 1..Len(TextChars)}, MaxPlainLen)
Passphrases == {<<"{">>, <<"}", "}">>}

\* The relay answers {"cookie_data": ...}: the structured cookie data
\* ("dict"), its encryption under the relay's passphrase ("enc"), the base64
\* of a text ("b64"), or a text as it is ("text").
RelaySends(form, pw, plain) ==
    /\ relay' = [form |-> form, pw |-> pw, plain |-> plain,
                 text |-> CASE form = "dict" -> <<>>
                            [] form = "enc" -> RelayEncrypt(plain, pw)
                            [] form = "b64" -> Base64Encode(Utf8Encode(plain))
                            [] form = "text" -> plain]
    /\ rlLast' = NoDecode
    /\ UNCHANGED <<apiVars, chVars, ckVars, idVars, rvVars, gcVars>>

Settings(who, password, crypto, res) ==
    [res EXCEPT !.who = who, !.password = password, !.crypto = crypto]

FromCredential(res) == [NoDecode EXCEPT !.kind = res.kind, !.str = res.str]

\* CookieCloudClient(url, uuid, password).get_cookie_string("weread.qq.com")
CallGetCookieStringRelay(password, crypto) ==
    /\ relay.form # "none"
    /\ rlLast' = Settings("v1", password, crypto,
                    IF relay.form = "dict"
                    THEN FromCredential(GetCookieString(WereadQqCom, "wrapped", RelayPayload))
                    ELSE GetCookieStringFromText(relay.text, password, crypto))
    /\ UNCHANGED <<relay, apiVars, chVars, ckVars, idVars, rvVars, gcVars>>

\* WeReadApiV2.try_get_cloud_cookie(url, uuid, password)
CallTryGetCloudCookieRelay(password, crypto) ==
    /\ relay.form # "none"
    /\ rlLast' = Settings("v2", password, crypto,
                    IF relay.form = "dict"
                    THEN FromCredential(TryGetCloudCookie("wrapped", RelayPayload))
                    ELSE TryGetCloudCookieFromText(relay.text))
    /\ UNCHANGED <<relay, apiVars, chVars, ckVars, idVars, rvVars, gcVars>>

\* CookieCloudClient._decrypt(cookie_data, password) on its own
CallDecrypt(password, crypto) ==
    /\ relay.form \in {"enc", "b64", "text"}
    /\ rlLast' = Settings("decrypt", password, crypto,
                    [NoDecode EXCEPT !.dec = Decrypt(relay.text, password, crypto)])
    /\ UNCHANGED <<relay, apiVars, chVars, ckVars, idVars, rvVars, gcVars>>

NextRelay ==
    \/ RelaySends("dict", <<>>, JsonText)
    \/ \E pw \in Passphrases \cup {<<>>}, plain \in Plaintexts : RelaySends("enc", pw, plain)
    \/ \E form \in {"b64", "text"}, plain \in Plaintexts : RelaySends(form, <<>>, plain)
    \/ \E password \in Passphrases \cup {<<>>}, crypto \in BOOLEAN :
          CallGetCookieStringRelay(password, crypto)
    \/ \E password \in Passphrases \cup {<<>>}, crypto \in BOOLEAN :
          CallTryGetCloudCookieRelay(password, crypto)
    \/ \E password \in Passphrases \cup {<<>>}, crypto \in BOOLEAN :
          CallDecrypt(password, crypto)

SpecRelay == Init /\ [][NextRelay]_vars

\* C14: a string cookie_data is accepted by get_cookies only through its
\* designated path: with a passphrase, decryption under it; without one, the
\* base64 decoding to JSON.
C14_OnlyDesignatedPath ==
    (rlLast.who = "v1" /\ relay.form \in {"enc", "b64", "text"} /\ rlLast.accepted) =>
        IF rlLast.password # <<>>
        THEN rlLast.dec.ok /\ rlLast.via = "decrypt"
        ELSE rlLast.via = "base64"

\* C15: when the relay holds a weread.qq.com entry, get_cookie_string and
\* try_get_cloud_cookie both return the credential, whether cookie_data is
\* the structured payload or its ciphertext (given the relay's passphrase).
C15_BothStrategiesBothForms ==
    ( /\ rlLast.who \in {"v1", "v2"}
      /\ relay.plain = JsonText
      /\ \/ relay.form = "dict"
         \/ /\ relay.form = "enc" /\ relay.pw # <<>>
            /\ rlLast.password = relay.pw /\ rlLast.crypto )
        => (rlLast.kind = "return" /\ rlLast.str = <<"a", "=", "1">>)

\* _decrypt was applied to the relay's encryption, under the relay's
\* passphrase.
DecryptedOwnCiphertext ==
    /\ relay.form = "enc"
    /\ rlLast.password = relay.pw
    /\ rlLast.who = "decrypt" \/ (rlLast.who = "v1" /\ rlLast.password # <<>>)

\* C18 (as stated): _decrypt applied to the relay-scheme encryption of a
\* payload under the same passphrase returns the payload.
C18_RoundTrip == DecryptedOwnCiphertext => rlLast.dec = Ok(relay.plain)

\* C18 (amended): ... when the Crypto package can be imported.
C18_RoundTripWithCrypto ==
    (DecryptedOwnCiphertext /\ rlLast.crypto) => rlLast.dec = Ok(relay.plain)

C18_WitnessTwoBlocks ==
    /\ DecryptedOwnCiphertext /\ rlLast.crypto
    /\ Len(relay.plain) > BlockSize
    /\ relay.pw = <<"}", "}">>
    /\ rlLast.dec = Ok(relay.plain)

(***************************************************************************)
(* The keys _find_domain_key may return (SpecCookie).                      *)
(***************************************************************************)
\* The key denotes the domain or one of its subdomains.
DenotesDomain(key, domain) ==
    \/ key = domain
    \/ key = <<".">> \o domain
    \/ EndsWith(key, <<".">> \o domain)

\* C28: _find_domain_key returns only keys that denote the target domain or
\* one of its subdomains (the target, "." + target, or a key ending with
\* "." + target); the key of another registrable domain that has the target
\* as a textual suffix is never returned, so get_cookie_string never renders
\* another site's cookies into the credential.
C28_OnlyKeysOfTheDomain ==
    (ckLast.who = "v1" /\ ckLast.mode \in {"bare", "wrapped"}) =>
        /\ ckLast.res.key1.found => DenotesDomain(ckLast.res.key1.key, WereadQqCom)
        /\ ckLast.res.kind = "return" => DenotesDomain(ckLast.res.via, WereadQqCom)

(***************************************************************************)
(* The request engine: the retry delay, the engine object, termination.    *)
(***************************************************************************)
FailedAttempts == Cardinality({k \in 1..Len(attLog) : Raised(k)})
AtMost(a, b) == IF a < b THEN a ELSE b

\* C21: in v2 _retry exactly one sleep occurs between two consecutive
\* attempts, of wait_ms up to (not including) wait_ms + 3000 milliseconds,
\* 5000..7999 ms by default; no sleep follows a successful attempt or the
\* final failed one, so a call with k failed attempts has slept min(k, 2)
\* times.
C21_RetryDelay ==
    (client = "v2" /\ attempt > 0) =>
        /\ pc = "sleeping" =>
              /\ wait >= WaitMs /\ wait < WaitMs + 3000
              /\ wait \in 5000..7999
              /\ Raised(Len(attLog)) /\ Len(attLog) = attempt
              /\ attempt < MaxAttempts
              /\ nSleep = attempt
        /\ pc = "nbsleeping" => wait \in 5000..7999
        /\ pc # "sleeping" => nSleep = attempt - 1
        /\ pc \in {"done", "idle"} =>
              /\ nSleep = AtMost(FailedAttempts, MaxAttempts - 1)
              /\ ~Raised(Len(attLog)) => nSleep = FailedAttempts

\* C21's cases happen: the second sleep of a call, at the top of the range ...
C21_WitnessSecondSleep ==
    /\ client = "v2" /\ pc = "sleeping" /\ nSleep = 2 /\ wait = 7999

\* ... a call whose three attempts failed, and one whose second succeeded.
C21_WitnessThreeFailed ==
    /\ client = "v2" /\ pc = "done" /\ FailedAttempts = 3 /\ nSleep = 2

C21_WitnessOneFailed ==
    /\ client = "v2" /\ pc = "done" /\ FailedAttempts = 1 /\ nSleep = 1
    /\ outcome.kind = "return"

\* The request of this step completed successfully.
RequestSucceeded(resp) ==
    /\ resp.req # "none" /\ ~resp.net /\ resp.ok /\ resp.json
    /\ ~resp.hasErr \/ resp.errcode = 0

\* C22: the engine's initialization flag is set by the first successful
\* call: it becomes true only in a step in which an endpoint request
\* completes successfully, so it is still false after calls that all failed.
C22_InitializedOnlyAfterSuccess ==
    [][(initialized' /\ ~initialized) => RequestSucceeded(lastResp')]_vars

\* C23: after construction no endpoint operation, successful, failing or
\* retried, changes the engine's credential: self.cookie and the session's
\* default Cookie header stay equal to the credential resolved at setup; and
\* no response is kept from one call to the next: a call starts with nothing
\* of the previous one and issues its own request.
C23_CredentialFrame ==
    [][/\ cookie' = cookie /\ cookie' = SetupCredential
       /\ sessionHeaders' = sessionHeaders
       /\ sessionHeaders'["Cookie"] = cookie'
       /\ (pc = "idle" /\ pc' # "idle") =>
              /\ nReq' = 0 /\ nNb' = 0 /\ nWarm' = 0
              /\ outcome' = NoOutcome /\ lastResp' = NoResponse
       /\ (client' = "v2" /\ pc' = "done") => nReq' + nNb' >= 1]_vars

\* C23's case happens: a later call on an engine that has already issued
\* requests is about to send its own.
C23_WitnessLaterCall ==
    /\ client = "v2" /\ pc = "endpoint" /\ attempt = 1 /\ nReq = 0
    /\ initialized /\ Len(attLog) = 0
    /\ sessionHeaders["Cookie"] = SetupCredential /\ cookie = SetupCredential

(***************************************************************************)
(* SpecChapterCall: calls of v2 get_chapter_info only, each step of a      *)
(* running call eventually taken (every HTTP request and every sleep       *)
(* terminates); whether the caller calls again is up to the caller.        *)
(***************************************************************************)
\* The answers drawn here: a request that raised, or a response with an OK
\* status (v2 never looks at the status) and any of the bodies.
AnswersToCall(responses) == {r \in responses : r.net \/ r.ok}

CallStep ==
    \/ \E net \in BOOLEAN : VisitHomepage(net)
    \/ \E r \in AnswersToCall(Responses) : NotebookRequest(r)
    \/ \E now \in Clock : NotebookSleep(now)
    \/ NotebookWake
    \/ Delay
    \/ \E r \in AnswersToCall(ChapterResponses) : ChapterPost(r)
    \/ \E now \in Clock : Sleep(now)
    \/ Wake

NextChapterCall ==
    \/ Call("v2", "get_chapter_info")
    \/ CallStep
    \/ Finish

SpecChapterCall == Init /\ [][NextChapterCall]_vars /\ WF_vars(CallStep)

InChapterCall == client = "v2" /\ op = "get_chapter_info" /\ pc # "idle"

\* C27: every call of v2 get_chapter_info terminates, returning or raising,
\* after at most 3 chapter-info POSTs, 3 warm-up requests and 9 notebook-list
\* requests; _retry's trailing "all retries failed" exception is never
\* raised.
C27_ChapterInfoTerminates ==
    /\ [](InChapterCall =>
            /\ nReq <= 3 /\ nWarm <= 3 /\ nNb <= 9
            /\ outcome.exc.kind # "exhausted"
            /\ pc = "done" => outcome.kind \in {"return", "raise"})
    /\ InChapterCall ~> (pc = "done")

\* C27's extreme cases happen: nine notebook-list requests ...
C27_WitnessNineNotebookRequests ==
    /\ InChapterCall /\ pc = "done" /\ nWarm = 3 /\ nNb = 9 /\ nReq = 0
    /\ outcome.kind = "raise"

\* ... and three POSTs, each after a notebook list fetched at the third try.
C27_WitnessThreePosts ==
    /\ InChapterCall /\ pc = "done" /\ nWarm = 3 /\ nNb = 9 /\ nReq = 3

(***************************************************************************)
(* SpecReview: get_review_list's reshaping of the "reviews" array of an OK *)
(* response.  A review is a dict (its fields by name); an item of the      *)
(* array is {"review": <review>} or, for a server that sends them so, the  *)
(* review itself.                                                          *)
(***************************************************************************)
MaxReviews == 2

ReviewType == 4
ServerChapterUids == {7}
ServerReviews ==
    {[reviewId |-> 1]}
    \cup {[reviewId |-> 1, type |-> t] : t \in {1, ReviewType}}
    \cup {[reviewId |-> 1, type |-> t, chapterUid |-> u] :
            t \in {1, ReviewType}, u \in ServerChapterUids}
ReviewItems == [wrapped : BOOLEAN, review : ServerReviews]

\* x.get("type") == 4
IsReview(x) == "type" \in DOMAIN x /\ x["type"] = ReviewType

\* v2: {**x, "chapterUid": 1000000}: the later key wins
WithChapterUid(x) ==
    [k \in (DOMAIN x) \cup {"chapterUid"} |-> IF k = "chapterUid" THEN Sentinel ELSE x[k]]

\* v1: {"chapterUid": 1000000, **x}: the later keys, x's, win
WithChapterUidDefault(x) ==
    [k \in {"chapterUid"} \cup (DOMAIN x) |-> IF k \in DOMAIN x THEN x[k] ELSE Sentinel]

RvReturn(c, list) == [client |-> c, kind |-> "return", list |-> list]
RvRaise(c) == [client |-> c, kind |-> "raise", list |-> <<>>]

\* WeReadApiV2.get_review_list, from data.get("reviews", []) on:
\* x.get("review", x), then the sentinel on the reviews of type 4.
GetReviewListV2(body) ==
    RvReturn("v2", [i \in 1..Len(body) |->
                       LET x == body[i].review
                       IN  IF IsReview(x) THEN WithChapterUid(x) ELSE x])

\* WeReadApi.get_review_list, from r.json().get("reviews") on: x.get("review")
\* is None for an item without the key, and None.get("type") raises (on
\* every attempt alike).
GetReviewListV1(body) ==
    IF \E i \in 1..Len(body) : ~body[i].wrapped THEN RvRaise("v1")
    ELSE RvReturn("v1", [i \in 1..Len(body) |->
                            LET x == body[i].review
                            IN  IF IsReview(x) THEN WithChapterUidDefault(x) ELSE x])

\* The server's answer gains a review.
ServerAddReview(item) ==
    /\ Len(reviews) < MaxReviews
    /\ reviews' = Append(reviews, item)
    /\ rvLast' = NoReviews
    /\ UNCHANGED <<apiVars, chVars, ckVars, rlVars, idVars, gcVars>>

CallGetReviewList(c) ==
    /\ rvLast' = IF c = "v1" THEN GetReviewListV1(reviews) ELSE GetReviewListV2(reviews)
    /\ UNCHANGED <<reviews, apiVars, chVars, ckVars, rlVars, idVars, gcVars>>

NextReview ==
    \/ \E item \in ReviewItems : ServerAddReview(item)
    \/ \E c \in {"v1", "v2"} : CallGetReviewList(c)

SpecReview == Init /\ [][NextReview]_vars

\* C24: every review of type 4 that get_review_list returns, in either
\* client, has chapterUid 1000000, whatever chapterUid the server put on it;
\* a review of any other type is returned as the server sent it.
C24_ReviewsCarrySentinel ==
    rvLast.kind = "return" =>
        /\ Len(rvLast.list) = Len(reviews)
        /\ \A i \in 1..Len(reviews) :
              IF IsReview(reviews[i].review)
              THEN rvLast.list[i]["chapterUid"] = Sentinel
              ELSE rvLast.list[i] = reviews[i].review

\* The same of v2 alone, whose merge puts the sentinel last.
ReviewsCarrySentinelV2 == rvLast.client = "v2" => C24_ReviewsCarrySentinel

(***************************************************************************)
(* SpecGetCookie: get_cookie's choice between its two sources, the         *)
(* environment variable WEREAD_COOKIE and the relay (CookieCloud), and the *)
(* construction of a v2 engine on its result.                              *)
(***************************************************************************)
WhiteSpace == {" ", "\t", "\n"}

StripNothing(s) == s

RECURSIVE LStrip(_)
LStrip(s) == IF s # <<>> /\ Head(s) \in WhiteSpace THEN LStrip(Tail(s)) ELSE s

RECURSIVE RStrip(_)
RStrip(s) ==
    IF s # <<>> /\ s[Len(s)] \in WhiteSpace THEN RStrip(SubSeq(s, 1, Len(s) - 1)) ELSE s

\* str.strip()
Strip(s) == RStrip(LStrip(s))

\* `if v:` for what os.getenv gave: None and "" are falsy.
EnvTruthy(v) == v.set /\ v.val # <<>>

\* `not cookie or not cookie.strip()`
EnvBlank(v) == ~EnvTruthy(v) \/ Strip(v.val) = <<>>

GcReturn(who, env, mode, contacted, cloud, str) ==
    [who |-> who, env |-> env, mode |-> mode, contacted |-> contacted,
     cloud |-> cloud, kind |-> "return", str |-> str]
GcRaise(who, env, mode, contacted, cloud) ==
    [who |-> who, env |-> env, mode |-> mode, contacted |-> contacted,
     cloud |-> cloud, kind |-> "raise", str |-> <<>>]

\* WeReadApi.get_cookie (CC_URL has a default, so url is always truthy).
\* get_cookie_from_cloud re-raises whatever get_cookie_string raised.
GetCookieV1(env, mode, cd) ==
    LET useCloud == EnvTruthy(env.CC_ID) /\ EnvTruthy(env.CC_PASSWORD)
        cloud == IF useCloud THEN GetCookieString(WereadQqCom, mode, cd)
                 ELSE NoCredential
        chosen == IF useCloud /\ cloud.kind = "return" THEN EnvText(cloud.str)
                  ELSE env.WEREAD_COOKIE
    IN  IF useCloud /\ cloud.kind = "raise" /\ EnvBlank(env.WEREAD_COOKIE)
        THEN GcRaise("v1", env, mode, useCloud, cloud)
        ELSE IF EnvBlank(chosen) THEN GcRaise("v1", env, mode, useCloud, cloud)
        ELSE GcReturn("v1", env, mode, useCloud, cloud, chosen.val)

\* WeReadApiV2.get_cookie
GetCookieV2(env, mode, cd) ==
    IF EnvTruthy(env.WEREAD_COOKIE) /\ Strip(env.WEREAD_COOKIE.val) # <<>>
    THEN GcReturn("v2", env, mode, FALSE, NoCredential, Strip(env.WEREAD_COOKIE.val))
    ELSE IF EnvTruthy(env.CC_ID) /\ EnvTruthy(env.CC_PASSWORD)
    THEN LET cloud == TryGetCloudCookie(mode, cd)
         IN  IF cloud.kind = "return" /\ cloud.str # <<>>
             THEN GcReturn("v2", env, mode, TRUE, cloud, cloud.str)
             ELSE GcRaise("v2", env, mode, TRUE, cloud)
    ELSE GcRaise("v2", env, mode, FALSE, NoCredential)

\* What the process environment may hold.
Environments ==
    [WEREAD_COOKIE : {Unset, EnvText(<<>>), EnvText(<<" ">>), EnvText(<<"k", "=", "v">>),
                      EnvText(<<" ", "k", "=", "v", "\n">>)},
     CC_ID : {Unset, EnvText(<<"i">>)},
     CC_PASSWORD : {Unset, EnvText(<<>>), EnvText(<<"p">>)}]

\* What the relay may hold: nothing, or one key with at most one cookie.
CloudPayloads ==
    {<<>>}
    \cup {<<[key |-> k, cookies |-> <<>>]>> : k \in {WereadQqCom, Weread}}
    \cup {<<[key |-> k, cookies |-> <<c>>]>> : k \in {WereadQqCom, Weread}, c \in CookieEntries}

RelayHolds(cd) ==
    /\ payload' = cd
    /\ ckLast' = NoAcquisition
    /\ gcLast' = NoGetCookie
    /\ UNCHANGED <<apiVars, chVars, rlVars, idVars, rvVars>>

\* WeReadApi(): self.cookie = self.get_cookie()
CallGetCookieV1(env, mode) ==
    /\ gcLast' = GetCookieV1(env, mode, payload)
    /\ UNCHANGED <<apiVars, chVars, ckVars, rlVars, idVars, rvVars>>

\* WeReadApiV2(): self.cookie = self.get_cookie(), a new session,
\* self.initialized = False, _setup_session(); when get_cookie raises no
\* engine is constructed and the one there was stays.
ConstructV2(env, mode) ==
    /\ pc = "idle"
    /\ gcLast' = GetCookieV2(env, mode, payload)
    /\ IF gcLast'.kind = "return"
       THEN /\ cookie' = gcLast'.str
            /\ sessionHeaders' = SetupSession(gcLast'.str)
            /\ initialized' = FALSE
       ELSE UNCHANGED <<cookie, sessionHeaders, initialized>>
    /\ UNCHANGED <<client, op, pc, attempt, nbAttempt, outcome, warmed, warmOk, nbOk,
                   nWarm, nNb, nReq, nSleep, attLog, expirySeen, reqAfterExpiry,
                   lastResp, wait, chVars, ckVars, rlVars, idVars, rvVars>>

NextGetCookie ==
    \/ \E cd \in CloudPayloads : RelayHolds(cd)
    \/ \E env \in Environments, mode \in RelayModes : CallGetCookieV1(env, mode)
    \/ \E env \in Environments, mode \in RelayModes : ConstructV2(env, mode)

SpecGetCookie == Init /\ [][NextGetCookie]_vars

\* A text with nothing but white space in it (the empty text included).
BlankText(s) == \A i \in 1..Len(s) : s[i] \in WhiteSpace

\* What "the variable provides a non-blank credential" means.
ProvidesCredential(v) == v.set /\ ~BlankText(v.val)

\* t is s without its leading and trailing white space.
StrippedOf(t, s) ==
    /\ t # <<>> => (t[1] \notin WhiteSpace /\ t[Len(t)] \notin WhiteSpace)
    /\ \E i \in 1..(Len(s) + 1) :
          /\ BlankText(SubSeq(s, 1, i - 1))
          /\ i + Len(t) - 1 <= Len(s)
          /\ SubSeq(s, i, i + Len(t) - 1) = t
          /\ BlankText(SubSeq(s, i + Len(t), Len(s)))

CloudConfigured == ProvidesCredential(gcLast.env.CC_ID) /\ gcLast.env.CC_PASSWORD.set
                     /\ gcLast.env.CC_PASSWORD.val # <<>>

\* The relay's retrieval gave a credential.
CloudYields ==
    /\ CloudConfigured /\ gcLast.contacted
    /\ gcLast.cloud.kind = "return" /\ ~BlankText(gcLast.cloud.str)

\* C25: v1 get_cookie, with CC_ID and CC_PASSWORD configured, uses the
\* relay's credential if the retrieval yields one and WEREAD_COOKIE as the
\* second choice otherwise; it raises only when neither the relay nor
\* WEREAD_COOKIE provides a non-blank credential, and never returns a blank
\* one.
C25_CloudFirstThenEnvironment ==
    gcLast.who = "v1" =>
        /\ CloudYields => (gcLast.kind = "return" /\ gcLast.str = gcLast.cloud.str)
        /\ (~CloudYields /\ ProvidesCredential(gcLast.env.WEREAD_COOKIE))
              => (gcLast.kind = "return" /\ gcLast.str = gcLast.env.WEREAD_COOKIE.val)
        /\ gcLast.kind = "raise"
              => (~CloudYields /\ ~ProvidesCredential(gcLast.env.WEREAD_COOKIE))
        /\ gcLast.kind = "return" => ~BlankText(gcLast.str)

\* The part of C25 that does not depend on what a blank retrieval does.
NeverBlankV1 == (gcLast.who = "v1" /\ gcLast.kind = "return") => ~BlankText(gcLast.str)

\* C26: v2 get_cookie returns a non-blank WEREAD_COOKIE, stripped, without a
\* request to the relay; it contacts the relay only when WEREAD_COOKIE is
\* missing or blank and CC_ID and CC_PASSWORD are set; in every other outcome
\* it raises, so a constructed engine never holds a blank credential.
C26_EnvironmentFirstThenCloud ==
    /\ ~BlankText(cookie) /\ sessionHeaders["Cookie"] = cookie
    /\ gcLast.who = "v2" =>
        /\ ProvidesCredential(gcLast.env.WEREAD_COOKIE) =>
              /\ gcLast.kind = "return" /\ ~gcLast.contacted
              /\ StrippedOf(gcLast.str, gcLast.env.WEREAD_COOKIE.val)
        /\ gcLast.contacted =>
              (~ProvidesCredential(gcLast.env.WEREAD_COOKIE) /\ CloudConfigured)
        /\ gcLast.kind = "return" =>
              /\ \/ ProvidesCredential(gcLast.env.WEREAD_COOKIE)
                 \/ /\ gcLast.contacted /\ gcLast.cloud.kind = "return"
                    /\ gcLast.str = gcLast.cloud.str
              /\ ~BlankText(gcLast.str)
              /\ cookie = gcLast.str /\ ~initialized
        /\ gcLast.kind = "raise" =>
              /\ ~ProvidesCredential(gcLast.env.WEREAD_COOKIE)
              /\ ~(gcLast.contacted /\ gcLast.cloud.kind = "return")

\* C26's cases happen: an engine constructed on the relay's credential ...
C26_WitnessFromRelay ==
    /\ gcLast.who = "v2" /\ gcLast.kind = "return" /\ gcLast.contacted
    /\ gcLast.env.WEREAD_COOKIE = EnvText(<<" ">>)
    /\ cookie = gcLast.cloud.str /\ cookie # SetupCredential

\* ... and one on a WEREAD_COOKIE that had white space around it.
C26_WitnessStripped ==
    /\ gcLast.who = "v2" /\ gcLast.kind = "return" /\ ~gcLast.contacted
    /\ gcLast.env.WEREAD_COOKIE = EnvText(<<" ", "k", "=", "v", "\n">>)
    /\ cookie = <<"k", "=", "v">> /\ CloudConfigured

=============================================================================
